---- MODULE Spec2Model ----
(***************************************************************************)
(* Model of the shipping-quote conversation core of projeto-condstore:     *)
(*   - the conversation state machine   (core/conversation/state-machine)  *)
(*   - the tenant-scoped session store  (core/conversation/session-manager *)
(*     over infra/redis.client)                                            *)
(*   - the freight decision engine      (modules/freight/freight.service)  *)
(* Weights are fixed-point numbers in hundredths of a kilogram.            *)
(* An optional value (a field that may be undefined, a nullable result) is *)
(* a sequence of length 0 or 1.                                            *)
(***************************************************************************)
EXTENDS Integers, Sequences, FiniteSets, TLC

VARIABLES
    \* --- state machine: one caller driving transition() ---
    smArg,      \* the context object the caller holds and passes to transition()
    smBefore,   \* the fields of that object when the last call was made
    smEvent,    \* the event of the last call
    smResult,   \* what the last call did: returned context or thrown error
    smPc,       \* "idle" | "returned"
    \* --- session store ---
    env,        \* appConfig.env
    redisUp,    \* RedisClient.isAvailable(): credentials were present at start
    redis,      \* the key-value backend: key -> stored value and expiry
    memory,     \* InMemorySessionStore.store: phoneNumber -> SessionData
    now,        \* Date.now(), in ticks
    sessLog,    \* logger events of the last session operation
    sessOp,     \* the last session operation: name, arguments, outcome
    \* --- freight service ---
    frCache,    \* the backend's freight cache: fingerprint -> cached result
    frSims,     \* rows of the simulations table
    frRun,      \* the last calculateFreight run: request, calls made, outcome
    \* --- Melhor Envio provider: one makeRequest call ---
    rqPc,       \* "idle" | "attempt" | "backoff" | "done"
    rqMax,      \* the maxRetries argument of the call
    rqAttempt,  \* the loop variable attempt
    rqHistory,  \* what each fetch of the call ended with, in order
    rqWaits,    \* the delays the call slept, in order
    rqResult,   \* how the call ended: returned data or thrown error
    \* --- intent classifier ---
    clText,     \* the message given to the classifier
    clResult,   \* what classify and hasMultipleIntents answered for it
    \* --- configuration ---
    defaultUnitWeight,  \* appConfig.freight.defaultUnitWeight, read from the environment
    sessionTtl,         \* appConfig.session.ttlMs, read from the environment, in ticks
    \* --- ranking engine ---
    rkRun,      \* the last call of calculateRanking: its arguments and what it returned
    \* --- session keys ---
    keyRun,     \* the last keys built: the identifiers and the keys for them
    \* --- rate limiter: the counter of one identifier ---
    rlStore,    \* the backend's value under ratelimit:{identifier} and its expiry, if any
    rlNow,      \* the time, in half windows
    rlCalls,    \* each caller's checkRateLimit call: where it stands, what it read
    rlGrants,   \* how many calls were allowed at each time
    rlHistory,  \* whether a command failed, whether two calls were in flight together
    \* --- freight service: one fetchQuotes call, provider call by provider call ---
    fqRun,      \* the call: its arguments, the provider calls in flight, its outcome
    \* --- session store: updateSession calls that run at the same time ---
    ccCalls,    \* each caller's updateSession call: where it stands, what it read and wrote
    ccTrace,    \* the reads and writes of the calls under way, in the order they happened
    \* --- freight controller: processMessage calls of one sender ---
    orch,       \* each call: the await it stands at, its message and what it holds
    orchAct     \* the last step a call took: which await was answered, and how

smVars   == <<smArg, smBefore, smEvent, smResult, smPc>>
sessVars == <<env, redisUp, redis, memory, now, sessLog, sessOp>>
frVars   == <<frCache, frSims, frRun>>
rqVars   == <<rqPc, rqMax, rqAttempt, rqHistory, rqWaits, rqResult>>
clVars   == <<clText, clResult>>
cfgVars  == <<defaultUnitWeight, sessionTtl>>
rkVars   == <<rkRun>>
keyVars  == <<keyRun>>
rlVars   == <<rlStore, rlNow, rlCalls, rlGrants, rlHistory>>
fqVars   == <<fqRun>>
ccVars   == <<ccCalls, ccTrace>>
orchVars == <<orch, orchAct>>
appVars  == <<keyVars, rlVars, fqVars, ccVars, orchVars>>
coreVars == <<smVars, sessVars, frVars, rqVars, clVars, cfgVars, rkVars>>
vars     == <<smVars, sessVars, frVars, rqVars, clVars, cfgVars, rkVars, appVars>>

None    == <<>>
Some(x) == <<x>>
IsSome(o) == Len(o) = 1
Val(o)  == o[1]

-----------------------------------------------------------------------------
(* Conversation state machine                                              *)

ConversationState ==
    {"IDLE", "AWAITING_CEP", "AWAITING_QUANTITY", "CALCULATING", "COMPLETED", "ERROR"}

ConversationEvent ==
    {"START_FREIGHT_QUERY", "CEP_PROVIDED", "QUANTITY_PROVIDED",
     "CALCULATION_SUCCESS", "CALCULATION_ERROR", "RESET", "ERROR"}

T(from, event, to, guard, action) ==
    [from |-> from, event |-> event, to |-> to, guard |-> guard, action |-> action]

\* The table built by defineTransitions, in source order.
transitions ==
    << T("IDLE", "START_FREIGHT_QUERY", "AWAITING_CEP", "none", "none"),
       T("AWAITING_CEP", "CEP_PROVIDED", "AWAITING_QUANTITY", "isValidCEP", "none"),
       T("AWAITING_QUANTITY", "QUANTITY_PROVIDED", "CALCULATING", "isValidQuantity", "setTotalWeight"),
       T("CALCULATING", "CALCULATION_SUCCESS", "COMPLETED", "none", "none"),
       T("CALCULATING", "CALCULATION_ERROR", "ERROR", "none", "none"),
       T("AWAITING_CEP", "RESET", "IDLE", "none", "none"),
       T("AWAITING_QUANTITY", "RESET", "IDLE", "none", "none"),
       T("CALCULATING", "RESET", "IDLE", "none", "none"),
       T("COMPLETED", "RESET", "IDLE", "none", "none"),
       T("ERROR", "RESET", "IDLE", "none", "none"),
       T("AWAITING_CEP", "ERROR", "ERROR", "none", "none"),
       T("AWAITING_QUANTITY", "ERROR", "ERROR", "none", "none") >>

Digits == {"0", "1", "2", "3", "4", "5", "6", "7", "8", "9"}

IsDigit(c) == c \in Digits

\* cep.replace(/\D/g, '')
StripNonDigits(s) == SelectSeq(s, IsDigit)

CepLength == 8

\* an isValidCEP that tests the text as it is, without removing the non-digits
isValidCEPUnstripped(cep) ==
    IF ~IsSome(cep) \/ Val(cep) = <<>> THEN FALSE
    ELSE Len(Val(cep)) = CepLength /\ \A i \in 1..Len(Val(cep)) : IsDigit(Val(cep)[i])

\* isValidCEP(cep?): a string is a sequence of characters
isValidCEP(cep) ==
    IF ~IsSome(cep) \/ Val(cep) = <<>> THEN FALSE
    ELSE Len(StripNonDigits(Val(cep))) = CepLength

\* isValidQuantity(quantity?)
isValidQuantity(quantity) == IsSome(quantity) /\ Val(quantity) > 0

\* const unitWeight = 0.3, in hundredths of a kilogram
SmUnitWeight == 30

GuardHolds(t, context) ==
    CASE t.guard = "isValidCEP"      -> isValidCEP(context.cep)
      [] t.guard = "isValidQuantity" -> isValidQuantity(context.quantity)
      [] OTHER                       -> TRUE

\* action: ctx.totalWeight = (ctx.quantity || 0) * unitWeight, on the object passed in
RunAction(t, context) ==
    IF t.action = "setTotalWeight"
    THEN [context EXCEPT !.totalWeight =
            Some((IF IsSome(context.quantity) THEN Val(context.quantity) ELSE 0) * SmUnitWeight)]
    ELSE context

Matching(from, event) ==
    {i \in 1..Len(transitions) : transitions[i].from = from /\ transitions[i].event = event}

\* a lookup that compares the event only
FindTransitionByEvent(from, event) ==
    LET byEvent == {i \in 1..Len(transitions) : transitions[i].event = event} IN
    IF byEvent = {} THEN None
    ELSE Some(transitions[CHOOSE i \in byEvent : \A j \in byEvent : i <= j])

\* this.transitions.find(...): the first matching entry
FindTransition(from, event) ==
    IF Matching(from, event) = {} THEN None
    ELSE Some(transitions[CHOOSE i \in Matching(from, event) :
                             \A j \in Matching(from, event) : i <= j])

canTransition(from, event) == Matching(from, event) # {}

Thrown(code, arg) ==
    [outcome |-> "throw", code |-> code, newContext |-> None, arg |-> arg, logged |-> "warn"]

\* a transition whose returned context is the spread of the argument, currentState not set
transitionKeepsState(context, event) ==
    LET found == FindTransition(context.currentState, event) IN
    IF ~IsSome(found) THEN Thrown("INVALID_STATE_TRANSITION", context)
    ELSE LET t == Val(found) IN
         IF ~GuardHolds(t, context) THEN Thrown("VALIDATION_ERROR", context)
         ELSE LET acted == RunAction(t, context) IN
              [outcome |-> "return", code |-> "", newContext |-> Some(acted),
               arg |-> acted, logged |-> "stateTransition"]

\* a transition that runs the action before it checks the guard
transitionActsFirst(context, event) ==
    LET found == FindTransition(context.currentState, event) IN
    IF ~IsSome(found) THEN Thrown("INVALID_STATE_TRANSITION", context)
    ELSE LET t == Val(found)
             acted == RunAction(t, context) IN
         IF ~GuardHolds(t, acted) THEN Thrown("VALIDATION_ERROR", acted)
         ELSE [outcome |-> "return", code |-> "",
               newContext |-> Some([acted EXCEPT !.currentState = t.to]),
               arg |-> acted, logged |-> "stateTransition"]

\* transition(context, event): the outcome, the returned context, and the argument
\* object as the call leaves it
transition(context, event) ==
    LET found == FindTransition(context.currentState, event) IN
    IF ~IsSome(found) THEN Thrown("INVALID_STATE_TRANSITION", context)
    ELSE LET t == Val(found) IN
         IF ~GuardHolds(t, context) THEN Thrown("VALIDATION_ERROR", context)
         ELSE LET acted == RunAction(t, context) IN
              [outcome |-> "return", code |-> "",
               newContext |-> Some([acted EXCEPT !.currentState = t.to]),
               arg |-> acted, logged |-> "stateTransition"]


\* --- one caller driving the state machine ---

Str8     == <<"0", "1", "0", "0", "1", "0", "0", "0">>
Str8Dash == <<"0", "1", "0", "0", "1", "-", "0", "0", "0">>
Str3     == <<"1", "2", "3">>
Str7a    == <<"0", "1", "0", "0", "1", "0", "0", "a">>
Str9     == <<"0", "1", "0", "0", "1", "0", "0", "0", "1">>
Cep12345678     == <<"1", "2", "3", "4", "5", "6", "7", "8">>
Cep12345Dash678 == <<"1", "2", "3", "4", "5", "-", "6", "7", "8">>

\* destinations a caller may put into the context
CepSamples == {Str8, Str8Dash, Str3, <<>>, Str7a, Str9}

\* quantities a caller may put into the context
QuantitySamples == {-1, 0, 1, 5, 10000}

\* the context of a fresh session (createSession): IDLE, nothing collected
FreshContext ==
    [currentState |-> "IDLE", cep |-> None, quantity |-> None, totalWeight |-> None]

NoResult ==
    [outcome |-> "none", code |-> "", newContext |-> None, arg |-> FreshContext, logged |-> ""]

InitSM ==
    /\ smArg = FreshContext
    /\ smBefore = FreshContext
    /\ smEvent = "RESET"
    /\ smResult = NoResult
    /\ smPc = "idle"

\* stateMachine.transition(context, event)
SMCall(event) ==
    /\ smPc = "idle"
    /\ smBefore' = smArg
    /\ smEvent' = event
    /\ smResult' = transition(smArg, event)
    /\ smArg' = transition(smArg, event).arg
    /\ smPc' = "returned"

\* the caller goes on with the returned context, or with its own after an error
SMContinue ==
    /\ smPc = "returned"
    /\ smArg' = IF smResult.outcome = "return" THEN Val(smResult.newContext) ELSE smArg
    /\ smPc' = "idle"
    /\ UNCHANGED <<smBefore, smEvent, smResult>>

\* handleCEP: { ...session, cep }
SMSetCep(cep) ==
    /\ smPc = "idle"
    /\ smArg' = [smArg EXCEPT !.cep = Some(cep)]
    /\ UNCHANGED <<smBefore, smEvent, smResult, smPc>>

\* handleQuantity: { ...session, quantity }
SMSetQuantity(quantity) ==
    /\ smPc = "idle"
    /\ smArg' = [smArg EXCEPT !.quantity = Some(quantity)]
    /\ UNCHANGED <<smBefore, smEvent, smResult, smPc>>

NextSM ==
    \/ \E event \in ConversationEvent : SMCall(event) /\ UNCHANGED <<sessVars, frVars, rqVars, clVars, cfgVars, rkVars, appVars>>
    \/ SMContinue /\ UNCHANGED <<sessVars, frVars, rqVars, clVars, cfgVars, rkVars, appVars>>
    \/ \E cep \in CepSamples : SMSetCep(cep) /\ UNCHANGED <<sessVars, frVars, rqVars, clVars, cfgVars, rkVars, appVars>>
    \/ \E quantity \in QuantitySamples : SMSetQuantity(quantity) /\ UNCHANGED <<sessVars, frVars, rqVars, clVars, cfgVars, rkVars, appVars>>

\* --- properties of the state machine ---

\* the transition table as the specification lists it: <<from, event, to>>
SpecTable ==
    { <<"IDLE", "START_FREIGHT_QUERY", "AWAITING_CEP">>,
      <<"AWAITING_CEP", "CEP_PROVIDED", "AWAITING_QUANTITY">>,
      <<"AWAITING_QUANTITY", "QUANTITY_PROVIDED", "CALCULATING">>,
      <<"CALCULATING", "CALCULATION_SUCCESS", "COMPLETED">>,
      <<"CALCULATING", "CALCULATION_ERROR", "ERROR">>,
      <<"AWAITING_CEP", "RESET", "IDLE">>,
      <<"AWAITING_QUANTITY", "RESET", "IDLE">>,
      <<"CALCULATING", "RESET", "IDLE">>,
      <<"COMPLETED", "RESET", "IDLE">>,
      <<"ERROR", "RESET", "IDLE">>,
      <<"AWAITING_CEP", "ERROR", "ERROR">>,
      <<"AWAITING_QUANTITY", "ERROR", "ERROR">> }

InSpecTable(from, event) == \E r \in SpecTable : r[1] = from /\ r[2] = event

\* the guard the code attaches to the pair, evaluated on the context of the call
GuardOfCall ==
    \A i \in Matching(smBefore.currentState, smEvent) : GuardHolds(transitions[i], smBefore)

C2_TargetState ==
    \A r \in SpecTable :
        (smPc = "returned" /\ smBefore.currentState = r[1] /\ smEvent = r[2] /\ GuardOfCall) =>
            /\ smResult.outcome = "return"
            /\ Val(smResult.newContext).currentState = r[3]

C2_Witness ==
    /\ smPc = "returned"
    /\ smBefore.currentState = "CALCULATING"
    /\ smEvent = "CALCULATION_ERROR"
    /\ smResult.outcome = "return"
    /\ Val(smResult.newContext).currentState = "ERROR"

\* C3: when the guard of the pair's transition fails (as it does for CEP_PROVIDED
\* with the destination "123" and for QUANTITY_PROVIDED with the quantity 0), the
\* call throws VALIDATION_ERROR, returns no context, and the context passed in keeps
\* its state and its totalWeight: no action ran.
C3_GuardFailureRejected ==
    /\ (smPc = "returned" /\ InSpecTable(smBefore.currentState, smEvent) /\ ~GuardOfCall) =>
          /\ smResult.outcome = "throw"
          /\ smResult.code = "VALIDATION_ERROR"
          /\ smResult.newContext = None
          /\ smArg.currentState = smBefore.currentState
          /\ smArg.totalWeight = smBefore.totalWeight
          /\ smArg = smBefore
    /\ (/\ smPc = "returned"
        /\ \/ /\ smBefore.currentState = "AWAITING_QUANTITY"
              /\ smEvent = "QUANTITY_PROVIDED"
              /\ smBefore.quantity = Some(0)
           \/ /\ smBefore.currentState = "AWAITING_CEP"
              /\ smEvent = "CEP_PROVIDED"
              /\ smBefore.cep = Some(Str3)) =>
          smResult.code = "VALIDATION_ERROR"

C3_Witness ==
    /\ smPc = "returned"
    /\ smBefore.currentState = "AWAITING_QUANTITY"
    /\ smEvent = "QUANTITY_PROVIDED"
    /\ smBefore.quantity = Some(0)
    /\ smBefore.totalWeight = None
    /\ smResult.code = "VALIDATION_ERROR"

-----------------------------------------------------------------------------
(* Session store: SessionManager over RedisClient and InMemorySessionStore *)

\* a tenantId or phoneNumber is a string: a sequence of characters
EmptyString == <<>>
TenantA == <<"a">>
TenantB == <<"b">>
Phone1  == <<"1">>
Phone2  == <<"2">>

\* the value of a field that a parsed JSON object does not have
Undefined == <<"undefined">>

\* appConfig.session.ttlMs when SESSION_TTL_HOURS is not set, in ticks
SessionTtl == 1

\* the clock stops here
MaxTime == 2

\* backend commands that fail (after their retries) within one operation, at most
MaxFailures == 1

\* getKey: `session:${tenantId}:${phoneNumber}`
getKey(tenantId, phoneNumber) == <<"session", ":">> \o tenantId \o <<":">> \o phoneNumber

\* getOldKey: `session:${phoneNumber}`
getOldKey(phoneNumber) == <<"session", ":">> \o phoneNumber

SessionFields ==
    {"tenantId", "phoneNumber", "currentState", "cep", "quantity", "totalWeight",
     "errorCount", "createdAt", "updatedAt", "expiresAt"}

\* the optional fields of ConversationContext that the model carries
OptionalFields == {"cep", "quantity", "totalWeight"}

\* JSON.stringify(session): a field whose value is undefined is left out
Stringify(session) ==
    [f \in {g \in DOMAIN session : g \notin OptionalFields \/ IsSome(session[g])} |->
        IF f \in OptionalFields THEN Val(session[f]) ELSE session[f]]

\* JSON.parse(result) read as SessionData: a field the text lacks reads as undefined
Parse(json) ==
    [f \in SessionFields \cup DOMAIN json |->
        IF f \in OptionalFields
        THEN (IF f \in DOMAIN json THEN Some(json[f]) ELSE None)
        ELSE (IF f \in DOMAIN json THEN json[f] ELSE Undefined)]

Put(map, key, value) ==
    [k \in DOMAIN map \cup {key} |-> IF k = key THEN value ELSE map[k]]

Drop(map, key) == [k \in DOMAIN map \ {key} |-> map[k]]

\* what an operation works on: both stores, the log lines it wrote, and for each
\* backend command it will send whether the command gets an answer
World(r, m, script) == [redis |-> r, memory |-> m, log |-> {}, script |-> script]

Logged(w, line) == [w EXCEPT !.log = @ \cup {line}]

CmdOk(w) == Head(w.script)

Consume(w) == [w EXCEPT !.script = Tail(@)]

\* RedisClient.execute after its last retry: logs the failed command and returns null
ExecFailed(w, command) == Logged(Consume(w), <<"redis_command_failed", command>>)

\* a key the backend still holds: set with EX ttl, gone once the ttl has run out
RedisLive(r, key) == key \in DOMAIN r /\ now < r[key].exp

\* RedisClient.get
redisGet(w, key) ==
    IF ~CmdOk(w) THEN [w |-> ExecFailed(w, "get"), value |-> None]
    ELSE [w |-> Consume(w),
          value |-> IF RedisLive(w.redis, key) THEN Some(Parse(w.redis[key].text)) ELSE None]

\* RedisClient.set
redisSet(w, key, value, ttl) ==
    IF ~CmdOk(w) THEN [w |-> ExecFailed(w, "set"), ok |-> FALSE]
    ELSE [w |-> [Consume(w) EXCEPT
                   !.redis = Put(@, key, [text |-> Stringify(value), exp |-> now + ttl])],
          ok |-> TRUE]

\* RedisClient.delete
redisDelete(w, key) ==
    IF ~CmdOk(w) THEN [w |-> ExecFailed(w, "del"), ok |-> FALSE]
    ELSE [w |-> [Consume(w) EXCEPT !.redis = Drop(@, key)], ok |-> RedisLive(w.redis, key)]

\* RedisClient.ttl: seconds left, null for a missing key or a failed command
redisTtl(w, key) ==
    IF ~CmdOk(w) THEN [w |-> ExecFailed(w, "ttl"), value |-> None]
    ELSE [w |-> Consume(w),
          value |-> IF RedisLive(w.redis, key) THEN Some(w.redis[key].exp - now) ELSE None]

\* InMemorySessionStore.get
memGet(w, phoneNumber) ==
    IF phoneNumber \notin DOMAIN w.memory THEN [w |-> w, value |-> None]
    ELSE IF now > w.memory[phoneNumber].expiresAt
         THEN [w |-> [w EXCEPT !.memory = Drop(@, phoneNumber)], value |-> None]
         ELSE [w |-> w, value |-> Some(w.memory[phoneNumber])]

\* InMemorySessionStore.set
memSet(w, phoneNumber, session) == [w EXCEPT !.memory = Put(@, phoneNumber, session)]

\* InMemorySessionStore.delete
memDelete(w, phoneNumber) == [w EXCEPT !.memory = Drop(@, phoneNumber)]

\* InMemorySessionStore.cleanup
memCleanup(m) == [k \in {j \in DOMAIN m : ~(now > m[j].expiresAt)} |-> m[k]]

Ret(w, value) == [w |-> w, kind |-> "return", value |-> value, class |-> "", code |-> ""]

Thr(w, class, code) == [w |-> w, kind |-> "throw", value |-> None, class |-> class, code |-> code]

\* `!tenantId`
NoTenant(tenantId) == tenantId = EmptyString


\* getSession(tenantId, phoneNumber)
getSession(w, tenantId, phoneNumber) ==
    IF NoTenant(tenantId) THEN Thr(w, "BusinessError", "VALIDATION_ERROR")
    ELSE IF redisUp
    THEN LET byNewKey == redisGet(w, getKey(tenantId, phoneNumber)) IN
         IF IsSome(byNewKey.value) THEN Ret(byNewKey.w, byNewKey.value)
         ELSE LET byOldKey == redisGet(byNewKey.w, getOldKey(phoneNumber)) IN
              IF IsSome(byOldKey.value)
              THEN Ret(redisDelete(Logged(byOldKey.w, <<"session_reset">>),
                                   getOldKey(phoneNumber)).w, None)
              ELSE Ret(byOldKey.w, None)
    ELSE IF env = "production" THEN Thr(w, "InfrastructureError", "INTERNAL_ERROR")
    ELSE LET found == memGet(w, phoneNumber) IN Ret(found.w, found.value)

\* saveSession(tenantId, phoneNumber, session)
saveSession(w, tenantId, phoneNumber, session) ==
    LET toRedis ==
            IF redisUp
            THEN LET set == redisSet(w, getKey(tenantId, phoneNumber), session, sessionTtl) IN
                 IF set.ok THEN Ret(set.w, None)
                 ELSE IF env = "production"
                      THEN Thr(set.w, "InfrastructureError", "INTERNAL_ERROR")
                      ELSE Ret(Logged(set.w, <<"save_failed_using_memory">>), None)
            ELSE IF env = "production" THEN Thr(w, "InfrastructureError", "INTERNAL_ERROR")
            ELSE Ret(w, None)
    IN  IF toRedis.kind = "throw" THEN toRedis
        ELSE IF env # "production" THEN Ret(memSet(toRedis.w, phoneNumber, session), None)
        ELSE toRedis

\* the record createSession builds
NewSession(tenantId, phoneNumber) ==
    [tenantId |-> tenantId, phoneNumber |-> phoneNumber, currentState |-> "IDLE",
     cep |-> None, quantity |-> None, totalWeight |-> None, errorCount |-> 0,
     createdAt |-> now, updatedAt |-> now, expiresAt |-> now + sessionTtl]

\* createSession(tenantId, phoneNumber)
createSession(w, tenantId, phoneNumber) ==
    IF NoTenant(tenantId) THEN Thr(w, "BusinessError", "VALIDATION_ERROR")
    ELSE LET saved == saveSession(w, tenantId, phoneNumber, NewSession(tenantId, phoneNumber)) IN
         IF saved.kind = "throw" THEN saved
         ELSE Ret(Logged(saved.w, <<"session_created">>), Some(NewSession(tenantId, phoneNumber)))

\* { ...session, ...updates, tenantId, phoneNumber, updatedAt: Date.now() }
MergeUpdates(session, updates, tenantId, phoneNumber) ==
    [f \in DOMAIN session \cup DOMAIN updates |->
        CASE f = "tenantId"    -> tenantId
          [] f = "phoneNumber" -> phoneNumber
          [] f = "updatedAt"   -> now
          [] OTHER -> IF f \in DOMAIN updates THEN updates[f] ELSE session[f]]

\* updateSession(tenantId, phoneNumber, updates)
updateSession(w, tenantId, phoneNumber, updates) ==
    IF NoTenant(tenantId) THEN Thr(w, "BusinessError", "VALIDATION_ERROR")
    ELSE LET got == getSession(w, tenantId, phoneNumber) IN
         IF got.kind = "throw" THEN got
         ELSE LET have == IF IsSome(got.value) THEN got
                          ELSE createSession(Logged(got.w, <<"session_not_found_creating">>),
                                             tenantId, phoneNumber) IN
              IF have.kind = "throw" THEN have
              ELSE LET updated == MergeUpdates(Val(have.value), updates, tenantId, phoneNumber)
                       saved == saveSession(have.w, tenantId, phoneNumber, updated) IN
                   IF saved.kind = "throw" THEN saved ELSE Ret(saved.w, Some(updated))

\* deleteSession(tenantId, phoneNumber)
deleteSession(w, tenantId, phoneNumber) ==
    IF NoTenant(tenantId) THEN Thr(w, "BusinessError", "VALIDATION_ERROR")
    ELSE LET w1 == IF redisUp THEN redisDelete(w, getKey(tenantId, phoneNumber)).w ELSE w IN
         Ret(Logged(memDelete(w1, phoneNumber), <<"session_deleted">>), None)

\* sessionExists(tenantId, phoneNumber)
sessionExists(w, tenantId, phoneNumber) ==
    LET got == getSession(w, tenantId, phoneNumber) IN
    IF got.kind = "throw" THEN got ELSE Ret(got.w, Some(IsSome(got.value)))

\* getSessionTTL(tenantId, phoneNumber)
getSessionTTL(w, tenantId, phoneNumber) ==
    IF redisUp
    THEN LET t == redisTtl(w, getKey(tenantId, phoneNumber)) IN Ret(t.w, t.value)
    ELSE LET found == memGet(w, phoneNumber) IN
         IF ~IsSome(found.value) THEN Ret(found.w, None)
         ELSE Ret(found.w, Some(Val(found.value).expiresAt - now))

\* extendSession(tenantId, phoneNumber)
extendSession(w, tenantId, phoneNumber) ==
    LET got == getSession(w, tenantId, phoneNumber) IN
    IF got.kind = "throw" THEN got
    ELSE IF ~IsSome(got.value) THEN Thr(got.w, "BusinessError", "SESSION_NOT_FOUND")
    ELSE LET extended == [Val(got.value) EXCEPT !.expiresAt = now + sessionTtl]
             saved == saveSession(got.w, tenantId, phoneNumber, extended) IN
         IF saved.kind = "throw" THEN saved ELSE Ret(saved.w, None)


\* --- callers of the session store ---

TenantIds == {EmptyString, TenantA, TenantB}

PhoneNumbers == {Phone1}

LegacyCep == <<"9", "9", "9", "9", "9", "9", "9", "9">>

\* a record written before tenants existed: SessionData without tenantId
LegacySession(phoneNumber) ==
    [phoneNumber |-> phoneNumber, currentState |-> "AWAITING_QUANTITY", cep |-> LegacyCep,
     errorCount |-> 1, createdAt |-> 0, updatedAt |-> 0, expiresAt |-> SessionTtl]

NoUpdates == [f \in {} |-> None]

\* the `updates` objects callers pass; the second one tries to overwrite the identity
UpdateSamples ==
    { [currentState |-> "AWAITING_QUANTITY", cep |-> Some(Str8)],
      [tenantId |-> TenantB, phoneNumber |-> Phone2, currentState |-> "AWAITING_CEP"] }

\* for an operation that sends up to n commands: which of them get an answer
Scripts(n) ==
    IF redisUp
    THEN {s \in [1..n -> BOOLEAN] : Cardinality({i \in 1..n : ~s[i]}) <= MaxFailures}
    ELSE {[i \in 1..n |-> TRUE]}

Op(name, tenantId, phoneNumber, updates, out) ==
    [name |-> name, tenantId |-> tenantId, phoneNumber |-> phoneNumber, updates |-> updates,
     kind |-> out.kind, class |-> out.class, code |-> out.code, value |-> out.value]

NoOp(name) == Op(name, EmptyString, EmptyString, NoUpdates, Ret(World(<<>>, <<>>, <<>>), None))

\* RedisClient.initialize throws in production without credentials, so a production
\* process always has the backend configured; legacy keys can only be in a backend
InitSess ==
    /\ env \in {"development", "production"}
    /\ redisUp \in BOOLEAN
    /\ env = "production" => redisUp
    /\ redis \in IF redisUp
                 THEN {<<>>, Put(<<>>, getOldKey(Phone1),
                                 [text |-> LegacySession(Phone1), exp |-> SessionTtl])}
                 ELSE {<<>>}
    /\ memory = <<>>
    /\ now = 0
    /\ sessLog = {}
    /\ sessOp = NoOp("start")

\* one call of a SessionManager method, from start to end
Finish(name, tenantId, phoneNumber, updates, out) ==
    /\ redis' = out.w.redis
    /\ memory' = out.w.memory
    /\ sessLog' = out.w.log
    /\ sessOp' = Op(name, tenantId, phoneNumber, updates, out)
    /\ UNCHANGED <<env, redisUp, now>>

SessGet(t, u, script) ==
    Finish("get", t, u, NoUpdates, getSession(World(redis, memory, script), t, u))

SessCreate(t, u, script) ==
    Finish("create", t, u, NoUpdates, createSession(World(redis, memory, script), t, u))

SessUpdate(t, u, updates, script) ==
    Finish("update", t, u, updates, updateSession(World(redis, memory, script), t, u, updates))

SessDelete(t, u, script) ==
    Finish("delete", t, u, NoUpdates, deleteSession(World(redis, memory, script), t, u))

SessExists(t, u, script) ==
    Finish("exists", t, u, NoUpdates, sessionExists(World(redis, memory, script), t, u))

SessTTL(t, u, script) ==
    Finish("ttl", t, u, NoUpdates, getSessionTTL(World(redis, memory, script), t, u))

SessExtend(t, u, script) ==
    Finish("extend", t, u, NoUpdates, extendSession(World(redis, memory, script), t, u))

\* time passes; the backend drops the keys whose ttl has run out
Tick ==
    /\ now < MaxTime
    /\ now' = now + 1
    /\ redis' = [k \in {j \in DOMAIN redis : now + 1 < redis[j].exp} |-> redis[k]]
    /\ sessLog' = {}
    /\ sessOp' = NoOp("tick")
    /\ UNCHANGED <<env, redisUp, memory>>

\* startCleanup: the interval callback
Cleanup ==
    /\ memory' = memCleanup(memory)
    /\ sessLog' = {<<"cleanup_completed">>}
    /\ sessOp' = NoOp("cleanup")
    /\ UNCHANGED <<env, redisUp, redis, now>>

NextSess ==
    \/ \E t \in TenantIds, u \in PhoneNumbers, script \in Scripts(3) :
          SessGet(t, u, script) /\ UNCHANGED <<smVars, frVars, rqVars, clVars, cfgVars, rkVars, appVars>>
    \/ \E t \in TenantIds, u \in PhoneNumbers, script \in Scripts(1) :
          SessCreate(t, u, script) /\ UNCHANGED <<smVars, frVars, rqVars, clVars, cfgVars, rkVars, appVars>>
    \/ \E t \in TenantIds, u \in PhoneNumbers, updates \in UpdateSamples, script \in Scripts(5) :
          SessUpdate(t, u, updates, script) /\ UNCHANGED <<smVars, frVars, rqVars, clVars, cfgVars, rkVars, appVars>>
    \/ \E t \in TenantIds, u \in PhoneNumbers, script \in Scripts(1) :
          SessDelete(t, u, script) /\ UNCHANGED <<smVars, frVars, rqVars, clVars, cfgVars, rkVars, appVars>>
    \/ \E t \in TenantIds, u \in PhoneNumbers, script \in Scripts(3) :
          SessExists(t, u, script) /\ UNCHANGED <<smVars, frVars, rqVars, clVars, cfgVars, rkVars, appVars>>
    \/ \E t \in TenantIds, u \in PhoneNumbers, script \in Scripts(1) :
          SessTTL(t, u, script) /\ UNCHANGED <<smVars, frVars, rqVars, clVars, cfgVars, rkVars, appVars>>
    \/ \E t \in TenantIds, u \in PhoneNumbers, script \in Scripts(4) :
          SessExtend(t, u, script) /\ UNCHANGED <<smVars, frVars, rqVars, clVars, cfgVars, rkVars, appVars>>
    \/ Tick /\ UNCHANGED <<smVars, frVars, rqVars, clVars, cfgVars, rkVars, appVars>>
    \/ Cleanup /\ UNCHANGED <<smVars, frVars, rqVars, clVars, cfgVars, rkVars, appVars>>

-----------------------------------------------------------------------------
(* Properties of the session store.                                        *)

SessionOps == {"get", "create", "update", "delete", "exists", "ttl", "extend"}

\* the record the store answers with for (tenantId, phoneNumber): the backend's while
\* it is available, the fallback map's otherwise
Stored(r, m, tenantId, phoneNumber) ==
    IF redisUp
    THEN IF RedisLive(r, getKey(tenantId, phoneNumber))
         THEN Some(Parse(r[getKey(tenantId, phoneNumber)].text)) ELSE None
    ELSE IF /\ phoneNumber \in DOMAIN m
            /\ m[phoneNumber].tenantId = tenantId
            /\ ~(now > m[phoneNumber].expiresAt)
         THEN Some(m[phoneNumber]) ELSE None

\* the record is kept somewhere a later call of the same profile may read it
Kept(r, m, tenantId, phoneNumber, session) ==
    \/ /\ redisUp
       /\ RedisLive(r, getKey(tenantId, phoneNumber))
       /\ Parse(r[getKey(tenantId, phoneNumber)].text) = session
    \/ /\ env # "production"
       /\ phoneNumber \in DOMAIN m
       /\ m[phoneNumber] = session

\* C4: sessions are isolated per tenant: a record returned by get(t2, u) has
\* tenantId = t2, and a write under (t1, u) neither replaces nor removes the record
\* of another tenant t2 for the same user.
C4_TenantIsolation ==
    [][ /\ (sessOp'.name = "get" /\ sessOp'.kind = "return" /\ IsSome(sessOp'.value))
             => Val(sessOp'.value).tenantId = sessOp'.tenantId
        /\ (sessOp'.name \in {"create", "update", "delete", "extend"})
             => \A t \in TenantIds \ {EmptyString, sessOp'.tenantId} :
                    Stored(redis', memory', t, sessOp'.phoneNumber)
                        = Stored(redis, memory, t, sessOp'.phoneNumber) ]_vars

\* the session of phoneNumber exists only under the legacy key
LegacyOnly(tenantId, phoneNumber) ==
    /\ redisUp
    /\ RedisLive(redis, getOldKey(phoneNumber))
    /\ ~RedisLive(redis, getKey(tenantId, phoneNumber))

\* C5: legacy-key migration: when the session exists only under session:{u}, get(t, u)
\* reports it as absent, deletes the legacy key and emits session_reset; the create
\* that follows stores a fresh Idle record under session:{t}:{u}; no tenant-scoped
\* record ever carries a field of the legacy record.
C5_LegacyMigration ==
    [][ /\ (sessOp'.name = "get" /\ ~NoTenant(sessOp'.tenantId)
              /\ LegacyOnly(sessOp'.tenantId, sessOp'.phoneNumber))
             => /\ sessOp'.kind = "return"
                /\ sessOp'.value = None
                /\ getOldKey(sessOp'.phoneNumber) \notin DOMAIN redis'
                /\ <<"session_reset">> \in sessLog'
        /\ (sessOp.name = "get" /\ <<"session_reset">> \in sessLog
              /\ sessOp'.name = "create" /\ sessOp'.kind = "return"
              /\ sessOp'.tenantId = sessOp.tenantId /\ sessOp'.phoneNumber = sessOp.phoneNumber)
             => /\ sessOp'.value = Some(NewSession(sessOp'.tenantId, sessOp'.phoneNumber))
                /\ Stored(redis', memory', sessOp'.tenantId, sessOp'.phoneNumber)
                       = sessOp'.value
        /\ \A k \in DOMAIN redis' \ {getOldKey(u) : u \in PhoneNumbers} :
               Parse(redis'[k].text).cep # Some(LegacyCep) ]_vars

\* C6: in production, when the backend is unavailable or a backend read or write
\* fails, get, create and update fail with InfrastructureError (get does not report
\* absent, a save does not report success), and the fallback map is never used.
C6_ProductionFailsHard ==
    env = "production" =>
        /\ memory = <<>>
        /\ (/\ sessOp.name \in {"get", "create", "update"}
            /\ ~NoTenant(sessOp.tenantId)
            /\ \/ ~redisUp
               \/ <<"redis_command_failed", "get">> \in sessLog
               \/ <<"redis_command_failed", "set">> \in sessLog)
             => (sessOp.kind = "throw" /\ sessOp.class = "InfrastructureError")

\* C7: every session store operation called with an empty tenantId is rejected with a
\* validation error and neither reads nor modifies any stored session.
C7_EmptyTenantRejected ==
    [][ (sessOp'.name \in SessionOps /\ NoTenant(sessOp'.tenantId))
            => /\ sessOp'.kind = "throw"
               /\ sessOp'.code = "VALIDATION_ERROR"
               /\ sessOp'.value = None
               /\ redis' = redis
               /\ memory' = memory ]_vars

\* C8: update(t, u, partial) stores and returns the existing record overridden by the
\* fields of partial, with updatedAt = now, expiresAt as it was, tenantId = t and
\* userId = u whatever partial holds; with no existing record the base is a fresh
\* Idle record.
C8_UpdateMerges ==
    [][ (sessOp'.name = "update" /\ sessOp'.kind = "return")
            => LET t == sessOp'.tenantId
                   u == sessOp'.phoneNumber
                   partial == sessOp'.updates
                   old == Stored(redis, memory, t, u)
                   base == IF IsSome(old) THEN Val(old) ELSE NewSession(t, u)
                   result == Val(sessOp'.value)
               IN  /\ \A f \in SessionFields :
                          result[f] = CASE f = "tenantId"    -> t
                                        [] f = "phoneNumber" -> u
                                        [] f = "updatedAt"   -> now
                                        [] f = "expiresAt"   -> base.expiresAt
                                        [] OTHER -> IF f \in DOMAIN partial THEN partial[f]
                                                    ELSE base[f]
                   /\ Kept(redis', memory', t, u, result) ]_vars

-----------------------------------------------------------------------------
(* Freight decision engine: FreightService over the providers, the cache   *)
(* and the simulation repository. Prices are in thousandths of a real.     *)

\* getEnvNumber('DEFAULT_UNIT_WEIGHT_KG', 0.3): the value when the environment sets none
DefaultUnitWeight == 30

\* values of appConfig.freight.defaultUnitWeight: the default, and 0.5 kg set by the
\* environment
UnitWeightConfigs == {DefaultUnitWeight, 50}

\* appConfig.freight.maxOptionsToReturn
maxOptionsToReturn == 3

\* decideStrategy: the thresholds, 10 kg and 15 kg
LightMax == 1000
MixedMax == 1500

\* TabelaProvider quotes up to 30 kg
TabelaMax == 3000

\* quantity > 9999 is rejected by validateRequest
QuantityMax == 9999

\* validateRequest: /^\d{8}$/ and the quantity bounds
validateRequest(request) ==
    IF ~(Len(request.destinationCep) = CepLength
         /\ \A i \in 1..Len(request.destinationCep) : IsDigit(request.destinationCep[i]))
    THEN "INVALID_CEP"
    ELSE IF request.quantity <= 0 \/ request.quantity > QuantityMax THEN "INVALID_QUANTITY"
    ELSE "ok"

\* (request.unitWeight || appConfig.freight.defaultUnitWeight) * request.quantity
TotalWeight(request) ==
    (IF IsSome(request.unitWeight) /\ Val(request.unitWeight) # 0
     THEN Val(request.unitWeight) ELSE defaultUnitWeight) * request.quantity

\* decideStrategy(totalWeight)
decideStrategy(totalWeight) ==
    IF totalWeight <= LightMax THEN "MELHORENVIO_ONLY"
    ELSE IF totalWeight > LightMax /\ totalWeight <= MixedMax THEN "BOTH"
    ELSE "TABELA_ONLY"

\* TabelaProvider.calculateShipping(totalWeight), mapped to FreightOption
TabelaQuotes(totalWeight) ==
    IF totalWeight <= TabelaMax
    THEN << [id |-> "tabela-1", price |-> 45000 + totalWeight * 25, deliveryTime |-> 5,
             source |-> "tabela"] >>
    ELSE <<>>

\* the key of getCachedResult and cacheResult: `v1:freight:${cep}:${totalWeight}:${quantity}`
CacheKey(request) ==
    <<"v1", ":", "freight", ":">> \o request.destinationCep
        \o <<":", TotalWeight(request), ":", request.quantity>>

\* the comparator of sortAndLimitOptions: price first, then delivery time
Before(a, b) ==
    IF a.price # b.price THEN a.price < b.price ELSE a.deliveryTime < b.deliveryTime

RECURSIVE InsertSorted(_, _)
InsertSorted(sorted, x) ==
    IF sorted = <<>> THEN <<x>>
    ELSE IF Before(x, Head(sorted)) THEN <<x>> \o sorted
    ELSE <<Head(sorted)>> \o InsertSorted(Tail(sorted), x)

RECURSIVE SortOptions(_)
\* Array.prototype.sort with that comparator (stable)
SortOptions(options) ==
    IF options = <<>> THEN <<>>
    ELSE InsertSorted(SortOptions(SubSeq(options, 1, Len(options) - 1)), options[Len(options)])

\* sortAndLimitOptions(options)
sortAndLimitOptions(options) ==
    SubSeq(SortOptions(options), 1,
           IF Len(options) < maxOptionsToReturn THEN Len(options) ELSE maxOptionsToReturn)

\* what each provider call did, for the providers that were called
Answers(askMe, me, askTabela, totalWeight) ==
    [p \in (IF askMe THEN {"melhorenvio"} ELSE {}) \cup (IF askTabela THEN {"tabela"} ELSE {}) |->
        IF p = "melhorenvio"
        THEN (IF me.kind = "throw" THEN "threw" ELSE IF me.quotes = <<>> THEN "empty" ELSE "quotes")
        ELSE (IF TabelaQuotes(totalWeight) = <<>> THEN "empty" ELSE "quotes")]

\* a fetchQuotes that answers an empty merge with an option of its own making
fetchQuotesSynthetic(totalWeight, strategy, me) ==
    LET askMe == strategy \in {"MELHORENVIO_ONLY", "BOTH"}
        meThrew == askMe /\ me.kind = "throw"
        askTabela == ~meThrew /\ strategy \in {"TABELA_ONLY", "BOTH"}
        options == (IF askMe /\ ~meThrew THEN me.quotes ELSE <<>>)
                   \o (IF askTabela THEN TabelaQuotes(totalWeight) ELSE <<>>)
    IN  IF meThrew
        THEN [kind |-> "throw", code |-> "FREIGHT_CALCULATION_ERROR", options |-> <<>>,
              answers |-> Answers(askMe, me, askTabela, totalWeight)]
        ELSE [kind |-> "return", code |-> "",
              options |-> IF options = <<>>
                          THEN << [id |-> "default", price |-> 0, deliveryTime |-> 0,
                                   source |-> "tabela"] >>
                          ELSE options,
              answers |-> Answers(askMe, me, askTabela, totalWeight)]

\* fetchQuotes(request, totalWeight, strategy): me is what the Melhor Envio call does
fetchQuotes(totalWeight, strategy, me) ==
    LET askMe == strategy \in {"MELHORENVIO_ONLY", "BOTH"}
        meThrew == askMe /\ me.kind = "throw"
        askTabela == ~meThrew /\ strategy \in {"TABELA_ONLY", "BOTH"}
        options == (IF askMe /\ ~meThrew THEN me.quotes ELSE <<>>)
                   \o (IF askTabela THEN TabelaQuotes(totalWeight) ELSE <<>>)
    IN  IF meThrew
        THEN [kind |-> "throw", code |-> "FREIGHT_CALCULATION_ERROR", options |-> <<>>,
              answers |-> Answers(askMe, me, askTabela, totalWeight)]
        ELSE IF options = <<>>
        THEN [kind |-> "throw", code |-> "NO_FREIGHT_OPTIONS", options |-> <<>>,
              answers |-> Answers(askMe, me, askTabela, totalWeight)]
        ELSE [kind |-> "return", code |-> "", options |-> options,
              answers |-> Answers(askMe, me, askTabela, totalWeight)]

\* one run of calculateFreight as its caller, the providers and the operators saw it:
\* merged is the list fetchQuotes returned, persist what became of saveSimulation,
\* log the lines written at error level and the cache-hit line
Run(request, kind, code, options, strategy, answers, cacheHit, merged, persist, log) ==
    [request |-> request, kind |-> kind, code |-> code, options |-> options,
     strategy |-> strategy, answers |-> answers, cacheHit |-> cacheHit,
     merged |-> merged, persist |-> persist, log |-> log]

NoAnswers == [p \in {} |-> ""]

\* calculateFreight(request): cache is the freight cache before the call, me the
\* behaviour of the Melhor Envio call, dbOk whether saveSimulation succeeds, readOk
\* and writeOk whether the cache commands get an answer
calculateFreight(cache, request, me, dbOk, readOk, writeOk) ==
    LET valid == validateRequest(request)
        key == CacheKey(request)
        hit == redisUp /\ readOk /\ key \in DOMAIN cache
        totalWeight == TotalWeight(request)
        strategy == decideStrategy(totalWeight)
        fetched == fetchQuotes(totalWeight, strategy, me)
        sortedOptions == sortAndLimitOptions(fetched.options)
        stored == redisUp /\ writeOk
    IN  IF valid # "ok"
        THEN [cache |-> cache, rows |-> <<>>,
              run |-> Run(request, "throw", valid, <<>>, None, NoAnswers, FALSE, <<>>,
                          "none", {"Freight calculation failed"})]
        ELSE IF hit
        THEN [cache |-> cache, rows |-> <<>>,
              run |-> Run(request, "return", "", cache[key].options, None, NoAnswers, TRUE,
                          <<>>, "none", {"Freight cache hit"})]
        ELSE IF fetched.kind = "throw"
        THEN [cache |-> cache, rows |-> <<>>,
              run |-> Run(request, "throw", fetched.code, <<>>, Some(strategy),
                          fetched.answers, FALSE, <<>>, "none",
                          IF fetched.code = "NO_FREIGHT_OPTIONS"
                          THEN {"Freight calculation failed"}
                          ELSE {"Failed to fetch quotes from providers",
                                "Freight calculation failed"})]
        ELSE IF ~dbOk
        THEN [cache |-> cache, rows |-> <<>>,
              run |-> Run(request, "throw", "FREIGHT_CALCULATION_ERROR", <<>>, Some(strategy),
                          fetched.answers, FALSE, fetched.options, "failed",
                          {"Failed to persist simulation", "Freight calculation failed"})]
        ELSE [cache |-> IF stored
                        THEN Put(cache, key, [options |-> sortedOptions,
                                              totalWeight |-> totalWeight])
                        ELSE cache,
              rows |-> << [cep |-> request.destinationCep, weight |-> totalWeight,
                           quantity |-> request.quantity,
                           bestCarrier |-> sortedOptions[1].id,
                           bestPrice |-> sortedOptions[1].price,
                           strategy |-> strategy] >>,
              run |-> Run(request, "return", "", sortedOptions, Some(strategy),
                          fetched.answers, FALSE, fetched.options, "saved", {})]

-----------------------------------------------------------------------------
(* The callers of the freight service.                                     *)

\* the simulation repository holds at most this many rows
MaxSims == 1

MeA == [id |-> "me-a", price |-> 90000, deliveryTime |-> 2, source |-> "melhorenvio"]
MeB == [id |-> "me-b", price |-> 30000, deliveryTime |-> 7, source |-> "melhorenvio"]
MeC == [id |-> "me-c", price |-> 30000, deliveryTime |-> 4, source |-> "melhorenvio"]
MeD == [id |-> "me-d", price |-> 60000, deliveryTime |-> 9, source |-> "melhorenvio"]

\* what a call of MelhorEnvioProvider.calculateShipping can do
MeBehaviours ==
    { [kind |-> "throw", quotes |-> <<>>],
      [kind |-> "return", quotes |-> <<>>],
      [kind |-> "return", quotes |-> <<MeA, MeB, MeC, MeD>>] }

UnitWeightSamples == {None, Some(1000), Some(1001), Some(1500), Some(1501), Some(3001)}

FreightQuantitySamples == {0, 1, 10000}

Requests ==
    { [destinationCep |-> Str8, quantity |-> 1, unitWeight |-> u] : u \in UnitWeightSamples }
    \cup { [destinationCep |-> Str8, quantity |-> q, unitWeight |-> None] :
              q \in FreightQuantitySamples }
    \cup { [destinationCep |-> Str3, quantity |-> 1, unitWeight |-> None] }

NoRun ==
    Run([destinationCep |-> <<>>, quantity |-> 0, unitWeight |-> None],
        "none", "", <<>>, None, NoAnswers, FALSE, <<>>, "none", {})

InitFr ==
    /\ frCache = <<>>
    /\ frSims = <<>>
    /\ frRun = NoRun

\* one request served by calculateFreight
FrCalculate(request, me, dbOk, readOk, writeOk) ==
    LET r == calculateFreight(frCache, request, me, dbOk, readOk, writeOk)
    IN  /\ Len(frSims) + Len(r.rows) <= MaxSims
        /\ frCache' = r.cache
        /\ frSims' = frSims \o r.rows
        /\ frRun' = r.run
        /\ UNCHANGED <<smVars, sessVars, rqVars, clVars, cfgVars, rkVars, appVars>>

\* a cached result reaches its TTL (600 s) and the backend drops it
FrExpire(key) ==
    /\ key \in DOMAIN frCache
    /\ frCache' = Drop(frCache, key)
    /\ frRun' = NoRun
    /\ UNCHANGED <<frSims, smVars, sessVars, rqVars, clVars, cfgVars, rkVars, appVars>>

NextFr ==
    \/ \E request \in Requests, me \in MeBehaviours, dbOk \in BOOLEAN, script \in Scripts(2) :
            FrCalculate(request, me, dbOk, script[1], script[2])
    \/ \E key \in DOMAIN frCache : FrExpire(key)

-----------------------------------------------------------------------------
(* The ranking engine (lib/engine/ranking.ts).  Prices and costs are whole *)
(* numbers, weights are tenths, and a quotient is kept exactly, as a pair  *)
(* <<numerator, denominator>> with a positive denominator.                 *)

Abs(n) == IF n < 0 THEN 0 - n ELSE n

RECURSIVE Gcd(_, _)
Gcd(a, b) == IF b = 0 THEN a ELSE Gcd(b, a % b)

\* n / d in lowest terms, for d # 0
Rat(n, d) ==
    LET g == Gcd(Abs(n), Abs(d))
    IN  IF d < 0 THEN <<(0 - n) \div g, (0 - d) \div g>> ELSE <<n \div g, d \div g>>

RatAdd(a, b) == Rat(a[1] * b[2] + b[1] * a[2], a[2] * b[2])

RatSub(a, b) == Rat(a[1] * b[2] - b[1] * a[2], a[2] * b[2])

RatMul(a, b) == Rat(a[1] * b[1], a[2] * b[2])

\* a / b for b # 0
RatDiv(a, b) == Rat(a[1] * b[2], a[2] * b[1])

RatLess(a, b) == a[1] * b[2] < b[1] * a[2]

RatEq(a, b) == a[1] * b[2] = b[1] * a[2]

\* a weight of a strategy, given in tenths
Weight(tenths) == Rat(tenths, 10)

\* a default strategy that looks at the price alone
DEFAULT_STRATEGY_PRICE_ONLY == [priceWeight |-> 10, timeWeight |-> 0, marginWeight |-> 0]

\* DEFAULT_STRATEGY
DEFAULT_STRATEGY == [priceWeight |-> 6, timeWeight |-> 4, marginWeight |-> 0]

\* [...list].sort((a, b) => key(a) - key(b)): ascending by key, equal keys keep their order
SortByKeys(list, keys) ==
    LET Pos(i) == 1 + Cardinality({j \in 1..Len(list) :
                                      \/ RatLess(keys[j], keys[i])
                                      \/ RatEq(keys[j], keys[i]) /\ j < i})
    IN  [p \in 1..Len(list) |-> list[CHOOSE i \in 1..Len(list) : Pos(i) = p]]

\* the economics of one option: netRevenue, profit, marginPercent
Economics(opt, context) ==
    LET operationalCost == IF IsSome(context.operationalCost)
                           THEN Val(context.operationalCost) ELSE 0
        netRevenue == context.sellingPrice - opt.price
        profit == netRevenue - context.productCost - operationalCost
    IN  [netRevenue |-> netRevenue, profit |-> profit,
         marginPercent |-> IF context.sellingPrice > 0
                           THEN Rat(profit * 100, context.sellingPrice)
                           ELSE Rat(0, 1)]

\* workingOptions: the options, each with its economics when a context is given
WorkingOptions(options, context) ==
    IF IsSome(context)
    THEN [i \in 1..Len(options) |->
            [options[i] EXCEPT !.economics = Some(Economics(options[i], Val(context)))]]
    ELSE options

\* opt.economics?.marginPercent || 0
MarginOrZero(opt) == IF IsSome(opt.economics) THEN Val(opt.economics).marginPercent ELSE Rat(0, 1)

\* a sortedByPrice that leaves the options in the order given
sortedByPriceAsGiven(options) == options

\* [...workingOptions].sort((a, b) => a.price - b.price)
sortedByPrice(options) ==
    SortByKeys(options, [i \in 1..Len(options) |-> Rat(options[i].price, 1)])

\* [...workingOptions].sort((a, b) => a.deliveryDays - b.deliveryDays)
sortedByTime(options) ==
    SortByKeys(options, [i \in 1..Len(options) |-> Rat(options[i].deliveryDays, 1)])

\* [...workingOptions].sort((a, b) => (b.economics?.marginPercent || 0) - (a...|| 0))
sortedByMargin(options) ==
    SortByKeys(options, [i \in 1..Len(options) |->
                            RatSub(Rat(0, 1), MarginOrZero(options[i]))])

\* bestMarginOption?.economics?.marginPercent || 1
maxMargin(options, context) ==
    IF IsSome(context) /\ ~RatEq(MarginOrZero(sortedByMargin(options)[1]), Rat(0, 1))
    THEN MarginOrZero(sortedByMargin(options)[1])
    ELSE Rat(1, 1)

\* the margin term of the score: (1 - relativeMargin) * strategy.marginWeight, or 0
marginScore(opt, options, strategy, context) ==
    IF IsSome(context) /\ strategy.marginWeight # 0 /\ IsSome(opt.economics)
    THEN RatMul(RatSub(Rat(1, 1),
                       RatDiv(Val(opt.economics).marginPercent, maxMargin(options, context))),
                Weight(strategy.marginWeight))
    ELSE Rat(0, 1)

\* a score without the time term
ScorePriceAndMargin(opt, options, strategy, context) ==
    RatAdd(RatMul(Rat(opt.price, sortedByPrice(options)[1].price),
                  Weight(strategy.priceWeight)),
           marginScore(opt, options, strategy, context))

\* a score whose price term is inverted: minPrice / opt.price
ScoreInvertedPrice(opt, options, strategy, context) ==
    RatAdd(RatAdd(RatMul(Rat(sortedByPrice(options)[1].price, opt.price),
                         Weight(strategy.priceWeight)),
                  RatMul(Rat(opt.deliveryDays, sortedByTime(options)[1].deliveryDays),
                         Weight(strategy.timeWeight))),
           marginScore(opt, options, strategy, context))

\* score: priceScore + timeScore + marginScore, with minPrice = cheapest.price and
\* minTime = fastest.deliveryDays
Score(opt, options, strategy, context) ==
    RatAdd(RatAdd(RatMul(Rat(opt.price, sortedByPrice(options)[1].price),
                         Weight(strategy.priceWeight)),
                  RatMul(Rat(opt.deliveryDays, sortedByTime(options)[1].deliveryDays),
                         Weight(strategy.timeWeight))),
           marginScore(opt, options, strategy, context))

\* scoredOptions: { ...opt, score }
ScoredOptions(options, strategy, context) ==
    [i \in 1..Len(options) |->
        [f \in DOMAIN options[i] \cup {"score"} |->
            IF f = "score" THEN Score(options[i], options, strategy, context)
            ELSE options[i][f]]]

\* calculateRanking(options, strategy = DEFAULT_STRATEGY, context?): a strategy or a
\* context that the caller leaves out is None
calculateRanking(options, strategyArg, context) ==
    IF options = <<>> THEN [options |-> <<>>]
    ELSE LET strategy == IF IsSome(strategyArg) THEN Val(strategyArg) ELSE DEFAULT_STRATEGY
             workingOptions == WorkingOptions(options, context)
             scoredOptions == ScoredOptions(workingOptions, strategy, context)
             ranked == SortByKeys(scoredOptions,
                                  [i \in 1..Len(scoredOptions) |-> scoredOptions[i].score])
         IN  [options |-> ranked,
              bestOption |-> ranked[1],
              cheapestOption |-> sortedByPrice(workingOptions)[1],
              fastestOption |-> sortedByTime(workingOptions)[1],
              bestCostBenefit |-> ranked[1]]

\* --- callers of the ranking engine ---

\* a candidate as the engine takes it
Candidate(id, price, deliveryDays) ==
    [id |-> id, price |-> price, deliveryDays |-> deliveryDays, economics |-> None]

\* the options of the verification script, and one with the days of another
CandidatePool ==
    { Candidate("1", 20, 10), Candidate("2", 40, 3), Candidate("3", 25, 8),
      Candidate("4", 60, 1), Candidate("5", 30, 8) }

\* a call ranks at most this many candidates
MaxCandidates == 3

CandidateLists ==
    UNION { {list \in [1..n -> CandidatePool] : \A i, j \in 1..n : i # j => list[i] # list[j]} :
              n \in 1..MaxCandidates }

Strategy(pw, tw, mw) == [priceWeight |-> pw, timeWeight |-> tw, marginWeight |-> mw]

\* the strategies of the verification script among them: default, 0.1/0.9, 1.0/0.0
StrategyArgs ==
    {None} \cup {Some(Strategy(pw, tw, mw)) : pw \in {0, 1, 6, 10}, tw \in {0, 4, 9}, mw \in {0, 3}}

EconomicContext(productCost, sellingPrice, operationalCost) ==
    [productCost |-> productCost, sellingPrice |-> sellingPrice,
     operationalCost |-> operationalCost]

\* no context; every margin positive; the best margin zero; every margin negative;
\* nothing charged
ContextArgs ==
    { None,
      Some(EconomicContext(10, 100, Some(5))),
      Some(EconomicContext(10, 30, None)),
      Some(EconomicContext(10, 20, None)),
      Some(EconomicContext(10, 0, None)) }

NoRanking == [options |-> <<>>, strategy |-> None, context |-> None, result |-> [options |-> <<>>]]

InitRk == rkRun = NoRanking

\* calculateRanking(options, strategy, context)
RkRank(options, strategy, context) ==
    /\ rkRun = NoRanking
    /\ rkRun' = [options |-> options, strategy |-> strategy, context |-> context,
                 result |-> calculateRanking(options, strategy, context)]
    /\ UNCHANGED <<smVars, sessVars, frVars, rqVars, clVars, cfgVars, appVars>>

\* the caller has used the ranking; the engine keeps nothing between calls
RkReturn ==
    /\ rkRun # NoRanking
    /\ rkRun' = NoRanking
    /\ UNCHANGED <<smVars, sessVars, frVars, rqVars, clVars, cfgVars, appVars>>

NextRk ==
    \/ \E options \in CandidateLists, strategy \in StrategyArgs, context \in ContextArgs :
            RkRank(options, strategy, context)
    \/ RkReturn

-----------------------------------------------------------------------------
(* Properties of the ranking engine.                                       *)

\* a call of calculateRanking has returned
Ranked == rkRun # NoRanking

\* the weights a call is to rank with: those given, else price 0.6, time 0.4, margin 0
StrategyOf(run) == IF IsSome(run.strategy) THEN Val(run.strategy) ELSE Strategy(6, 4, 0)

\* the candidates of the ranking scenario: 20 in 10 days, 40 in 3 days, 25 in 8 days
ScenarioOptions == <<Candidate("1", 20, 10), Candidate("2", 40, 3), Candidate("3", 25, 8)>>

\* the scenario ranked without a context
ScenarioRanked == rkRun.options = ScenarioOptions /\ rkRun.context = None

\* ... under the weights price 0.6, time 0.4, given or by default
ScenarioBalanced == ScenarioRanked /\ StrategyOf(rkRun) = Strategy(6, 4, 0)

\* ... under the weights price 1.0, time 0.0
ScenarioPriceOnly == ScenarioRanked /\ rkRun.strategy = Some(Strategy(10, 0, 0))

\* C21, as stated: for the scenario's candidates cheapest is the 20-price item and
\* fastest the 40-price/3-day item; under the weights 0.6/0.4 best is neither of the
\* two; under the weights 1.0/0.0 best is the cheapest item.
C21_ScenarioAsStated ==
    /\ ScenarioRanked =>
          /\ rkRun.result.cheapestOption.id = "1"
          /\ rkRun.result.fastestOption.id = "2"
    /\ ScenarioBalanced => rkRun.result.bestOption.id \notin {"1", "2"}
    /\ ScenarioPriceOnly => rkRun.result.bestOption.id = "1"

\* C21: for the scenario's candidates cheapest is the 20-price item and fastest the
\* 40-price/3-day item; under the weights 0.6/0.4 best is the fastest item (its score
\* is 1.6, against 1.93 for the 20-price and 1.82 for the 25-price item); under the
\* weights 1.0/0.0 best is the cheapest item.
C21_Scenario ==
    /\ ScenarioRanked =>
          /\ rkRun.result.cheapestOption.id = "1"
          /\ rkRun.result.fastestOption.id = "2"
    /\ ScenarioBalanced =>
          /\ rkRun.result.bestOption.id = "2"
          /\ RatEq(rkRun.result.bestOption.score, Rat(16, 10))
    /\ ScenarioPriceOnly => rkRun.result.bestOption.id = "1"

C21_Witness ==
    /\ ScenarioBalanced
    /\ rkRun.strategy = None
    /\ rkRun.result.bestOption.id = "2"

\* C22: for a non-empty candidate list, any weights and any economic context, the
\* ranking reports a cheapest candidate with the minimum price and a fastest one with
\* the minimum deliveryDays of all candidates, whether or not they are the best.
C22_Extremes ==
    Ranked =>
        /\ {"cheapestOption", "fastestOption"} \subseteq DOMAIN rkRun.result
        /\ \E i \in 1..Len(rkRun.options) :
              rkRun.result.cheapestOption.id = rkRun.options[i].id
        /\ \E i \in 1..Len(rkRun.options) :
              rkRun.result.fastestOption.id = rkRun.options[i].id
        /\ \A i \in 1..Len(rkRun.options) :
              /\ rkRun.result.cheapestOption.price <= rkRun.options[i].price
              /\ rkRun.result.fastestOption.deliveryDays <= rkRun.options[i].deliveryDays

\* a ranking whose best is neither its cheapest nor its fastest candidate
C22_Witness ==
    /\ Ranked
    /\ IsSome(rkRun.context)
    /\ rkRun.result.bestOption.id # rkRun.result.cheapestOption.id
    /\ rkRun.result.bestOption.id # rkRun.result.fastestOption.id

\* marginPercent = profit / sellingPrice * 100, 0 when sellingPrice is 0 or when there
\* is no context
ClaimedMargin(opt, run) ==
    IF IsSome(run.context) /\ Val(run.context).sellingPrice # 0
    THEN LET c == Val(run.context)
             cost == c.productCost
                       + (IF IsSome(c.operationalCost) THEN Val(c.operationalCost) ELSE 0)
         IN  Rat((c.sellingPrice - opt.price - cost) * 100, c.sellingPrice)
    ELSE Rat(0, 1)

\* maxMargin: the largest marginPercent of the candidates, 1 without economics
ClaimedMaxMargin(run) ==
    IF IsSome(run.context)
    THEN LET margins == {ClaimedMargin(run.options[i], run) : i \in 1..Len(run.options)}
         IN  CHOOSE m \in margins : \A n \in margins : ~RatLess(m, n)
    ELSE Rat(1, 1)

\* the score formula has a value: maxMargin is not 0
ScoreDefined(run) == ~RatEq(ClaimedMaxMargin(run), Rat(0, 1))

\* (price/minPrice)*priceWeight + (deliveryDays/minDays)*timeWeight
\*    + (1 - marginPercent/maxMargin)*marginWeight, the margin term for candidates
\* that have economics
ClaimedScore(opt, run) ==
    LET minimumPrice == CHOOSE p \in {run.options[i].price : i \in 1..Len(run.options)} :
                            \A i \in 1..Len(run.options) : p <= run.options[i].price
        minimumDays == CHOOSE d \in {run.options[i].deliveryDays : i \in 1..Len(run.options)} :
                            \A i \in 1..Len(run.options) : d <= run.options[i].deliveryDays
        strategy == StrategyOf(run)
    IN  RatAdd(RatAdd(RatMul(Rat(opt.price, minimumPrice), Rat(strategy.priceWeight, 10)),
                      RatMul(Rat(opt.deliveryDays, minimumDays), Rat(strategy.timeWeight, 10))),
               IF IsSome(run.context)
               THEN RatMul(RatSub(Rat(1, 1),
                                  RatDiv(ClaimedMargin(opt, run), ClaimedMaxMargin(run))),
                           Rat(strategy.marginWeight, 10))
               ELSE Rat(0, 1))

\* C23: calculateRanking returns its candidates in non-decreasing order of
\* score = (price/minPrice)*priceWeight + (deliveryDays/minDays)*timeWeight
\*         + (1 - marginPercent/maxMargin)*marginWeight,
\* with the weights 0.6, 0.4, 0 when no strategy is given; best is the first of them,
\* and no candidate has a lower score than best.
C23_OrderedByScore ==
    (Ranked /\ ScoreDefined(rkRun)) =>
        LET ranked == rkRun.result.options IN
        /\ Len(ranked) = Len(rkRun.options)
        /\ {ranked[i].id : i \in 1..Len(ranked)}
              = {rkRun.options[i].id : i \in 1..Len(rkRun.options)}
        /\ \A i \in 1..(Len(ranked) - 1) :
              ~RatLess(ClaimedScore(ranked[i + 1], rkRun), ClaimedScore(ranked[i], rkRun))
        /\ \A i \in 1..Len(ranked) : RatEq(ranked[i].score, ClaimedScore(ranked[i], rkRun))
        /\ rkRun.result.bestOption = ranked[1]
        /\ \A i \in 1..Len(rkRun.options) :
              ~RatLess(ClaimedScore(rkRun.options[i], rkRun),
                       ClaimedScore(rkRun.result.bestOption, rkRun))

\* a ranking with economics and a margin weight that moved the last candidate given
\* to the front
C23_Witness ==
    /\ Ranked
    /\ ScoreDefined(rkRun)
    /\ IsSome(rkRun.context)
    /\ StrategyOf(rkRun).marginWeight # 0
    /\ Len(rkRun.options) = 3
    /\ rkRun.result.bestOption.id = rkRun.options[3].id

\* the place of the candidate with the id in a ranked list
PlaceOf(id, ranked) == CHOOSE i \in 1..Len(ranked) : ranked[i].id = id

\* the call of the run again, with another price weight
RankedWithPriceWeight(run, pw) ==
    calculateRanking(run.options,
                     Some([StrategyOf(run) EXCEPT !.priceWeight = pw]),
                     run.context).options

\* C24: for two candidates a and b of a call with equal deliveryDays, a strictly
\* cheaper than b: if a is ranked before b under the weights (pw, tw, mw), then a is
\* ranked before b under (pw', tw, mw) for every pw' > pw, the candidates being the
\* same.
C24_Monotonic ==
    Ranked =>
        \A i, j \in 1..Len(rkRun.options) :
            LET a == rkRun.options[i]
                b == rkRun.options[j]
            IN  (/\ a.deliveryDays = b.deliveryDays
                 /\ a.price < b.price
                 /\ PlaceOf(a.id, rkRun.result.options) < PlaceOf(b.id, rkRun.result.options))
                => \A pw \in {0, 1, 6, 10} :
                      pw > StrategyOf(rkRun).priceWeight =>
                          PlaceOf(a.id, RankedWithPriceWeight(rkRun, pw))
                              < PlaceOf(b.id, RankedWithPriceWeight(rkRun, pw))

\* the 25-price and the 30-price item, both 8 days, ranked with the price weight 0:
\* the cheaper one is ahead only because it was given first
C24_Witness ==
    /\ Ranked
    /\ rkRun.options = <<Candidate("3", 25, 8), Candidate("5", 30, 8)>>
    /\ StrategyOf(rkRun).priceWeight = 0
    /\ rkRun.result.options[1].id = "3"

\* C25: when an economic context is supplied, the ranking reports bestMargin, a
\* candidate whose marginPercent is the maximum over all candidates, also when it is
\* not the best.
C25_BestMarginReported ==
    (Ranked /\ IsSome(rkRun.context)) =>
        /\ "bestMargin" \in DOMAIN rkRun.result
        /\ \A i \in 1..Len(rkRun.options) :
              ~RatLess(ClaimedMargin(rkRun.result.bestMargin, rkRun),
                       ClaimedMargin(rkRun.options[i], rkRun))

\* the margin term of a returned candidate: what its score holds beyond its price term
\* and its time term
MarginTermOf(opt, run) ==
    LET minimumPrice == CHOOSE p \in {run.options[i].price : i \in 1..Len(run.options)} :
                            \A i \in 1..Len(run.options) : p <= run.options[i].price
        minimumDays == CHOOSE d \in {run.options[i].deliveryDays : i \in 1..Len(run.options)} :
                            \A i \in 1..Len(run.options) : d <= run.options[i].deliveryDays
        strategy == StrategyOf(run)
    IN  RatSub(opt.score,
               RatAdd(RatMul(Rat(opt.price, minimumPrice), Rat(strategy.priceWeight, 10)),
                      RatMul(Rat(opt.deliveryDays, minimumDays), Rat(strategy.timeWeight, 10))))

\* C36: with an economic context and marginWeight > 0, of two candidates with equal
\* deliveryDays the one with the higher marginPercent gets a margin term that is less
\* than or equal to the other's, also when the maximum margin is zero or every margin
\* is negative.
C36_HigherMarginNotPenalised ==
    (Ranked /\ IsSome(rkRun.context) /\ StrategyOf(rkRun).marginWeight > 0) =>
        LET ranked == rkRun.result.options IN
        \A i, j \in 1..Len(ranked) :
            (/\ ranked[i].deliveryDays = ranked[j].deliveryDays
             /\ RatLess(ClaimedMargin(ranked[j], rkRun), ClaimedMargin(ranked[i], rkRun)))
                => ~RatLess(MarginTermOf(ranked[j], rkRun), MarginTermOf(ranked[i], rkRun))

\* the same, for the calls in which some candidate has a positive margin or the best
\* margin is zero
C36_PositiveOrZeroBest ==
    (/\ Ranked /\ IsSome(rkRun.context) /\ StrategyOf(rkRun).marginWeight > 0
     /\ ~RatLess(ClaimedMaxMargin(rkRun), Rat(0, 1))) =>
        LET ranked == rkRun.result.options IN
        \A i, j \in 1..Len(ranked) :
            (/\ ranked[i].deliveryDays = ranked[j].deliveryDays
             /\ RatLess(ClaimedMargin(ranked[j], rkRun), ClaimedMargin(ranked[i], rkRun)))
                => ~RatLess(MarginTermOf(ranked[j], rkRun), MarginTermOf(ranked[i], rkRun))

-----------------------------------------------------------------------------
(* Properties of the guards and the action of the state machine.           *)

\* a call of transition in AWAITING_CEP with CEP_PROVIDED has come back
CepCall ==
    /\ smPc = "returned"
    /\ smBefore.currentState = "AWAITING_CEP"
    /\ smEvent = "CEP_PROVIDED"

\* a call of transition in AWAITING_QUANTITY with QUANTITY_PROVIDED has come back
QuantityCall ==
    /\ smPc = "returned"
    /\ smBefore.currentState = "AWAITING_QUANTITY"
    /\ smEvent = "QUANTITY_PROVIDED"

\* the text with every character that is not a digit removed
DigitsOnly(text) == SelectSeq(text, LAMBDA c : c \in Digits)

\* a context waiting for the destination that carries the given one
AwaitingCepWith(cep) == [FreshContext EXCEPT !.currentState = "AWAITING_CEP", !.cep = Some(cep)]

\* C26: transition from AWAITING_CEP on CEP_PROVIDED succeeds if and only if the
\* destination of the context, its non-digits removed, has exactly 8 digits:
\* "12345-678" and "12345678" are accepted, a missing, shorter or longer one is not.
C26_DestinationGuard ==
    /\ CepCall =>
          (smResult.outcome = "return"
              <=> (IsSome(smBefore.cep) /\ Len(DigitsOnly(Val(smBefore.cep))) = 8))
    /\ (CepCall /\ smBefore.cep \in {None, Some(Str3), Some(Str7a), Some(Str9)}) =>
          smResult.outcome = "throw"
    /\ transition(AwaitingCepWith(Cep12345Dash678), "CEP_PROVIDED").outcome = "return"
    /\ transition(AwaitingCepWith(Cep12345678), "CEP_PROVIDED").outcome = "return"

C26_Witness ==
    /\ CepCall
    /\ smBefore.cep = Some(Str8Dash)
    /\ smResult.outcome = "return"

\* C27: after an accepted CEP_PROVIDED the returned context is in AWAITING_QUANTITY
\* and its destination is the digits-only postal code: "01001-000" comes back as
\* "01001000".
C27_DestinationNormalized ==
    (CepCall /\ smResult.outcome = "return") =>
        /\ Val(smResult.newContext).currentState = "AWAITING_QUANTITY"
        /\ Val(smResult.newContext).cep = Some(DigitsOnly(Val(smBefore.cep)))
        /\ smBefore.cep = Some(Str8Dash) => Val(smResult.newContext).cep = Some(Str8)

\* C28: transition from AWAITING_QUANTITY on QUANTITY_PROVIDED is accepted only for
\* a quantity from 1 to 9999; any other quantity is rejected with VALIDATION_ERROR
\* and no context in CALCULATING is returned.
C28_QuantityGuard ==
    QuantityCall =>
        \/ /\ IsSome(smBefore.quantity)
           /\ Val(smBefore.quantity) \in 1..9999
        \/ /\ smResult.outcome = "throw"
           /\ smResult.code = "VALIDATION_ERROR"
           /\ smResult.newContext = None

C30_ArgumentUntouched ==
    smPc = "returned" =>
        /\ smArg.currentState = smBefore.currentState
        /\ smArg.cep = smBefore.cep
        /\ smArg.quantity = smBefore.quantity
        /\ smArg.totalWeight = smBefore.totalWeight

-----------------------------------------------------------------------------
(* Properties of the freight service.                                      *)

\* the providers a strategy names
ProvidersOf(strategy) ==
    CASE strategy = "MELHORENVIO_ONLY" -> {"melhorenvio"}
      [] strategy = "BOTH"             -> {"melhorenvio", "tabela"}
      [] strategy = "TABELA_ONLY"      -> {"tabela"}

\* C9: the strategy is MELHORENVIO_ONLY for totalWeight <= 10 kg, BOTH for
\* 10 < totalWeight <= 15, TABELA_ONLY above 15, and a run of calculateFreight that
\* selects a strategy queries exactly the providers that strategy names.
C9_StrategyAndProviders ==
    IsSome(frRun.strategy) =>
        /\ Val(frRun.strategy) =
              (IF TotalWeight(frRun.request) <= 1000 THEN "MELHORENVIO_ONLY"
               ELSE IF TotalWeight(frRun.request) <= 1500 THEN "BOTH"
               ELSE "TABELA_ONLY")
        /\ DOMAIN frRun.answers = ProvidersOf(Val(frRun.strategy))

\* every provider the run queried returned an empty list
AllQueriedEmpty(run) ==
    /\ DOMAIN run.answers # {}
    /\ \A p \in DOMAIN run.answers : run.answers[p] = "empty"

\* C10: when every provider queried for a request returns an empty list,
\* calculateFreight fails with NO_FREIGHT_OPTIONS, returns no option, writes nothing
\* to the cache and persists no simulation.
C10_NoOptions ==
    [][ AllQueriedEmpty(frRun')
            => /\ frRun'.kind = "throw"
               /\ frRun'.code = "NO_FREIGHT_OPTIONS"
               /\ frRun'.options = <<>>
               /\ frCache' = frCache
               /\ frSims' = frSims ]_vars

\* a run whose providers all answered empty, with the cache and the repository
\* already holding earlier results
C10_Witness ==
    /\ AllQueriedEmpty(frRun)
    /\ frRun.code = "NO_FREIGHT_OPTIONS"
    /\ frCache # <<>>
    /\ frSims # <<>>

\* C11: when the providers returned candidates and the persistence call fails,
\* calculateFreight still returns the computed options, and the failure is logged
\* for the operators.
C11_PersistFailureNotMasking ==
    frRun.persist = "failed" =>
        /\ frRun.kind = "return"
        /\ frRun.options # <<>>
        /\ "Failed to persist simulation" \in frRun.log

\* the Melhor Envio call of a run under the mixed strategy failed
MixedWithFailedCall(run) ==
    /\ run.strategy = Some("BOTH")
    /\ "melhorenvio" \in DOMAIN run.answers
    /\ run.answers["melhorenvio"] = "threw"

\* C12: under the mixed strategy a provider call that fails is left out of the merged
\* set instead of failing the request: when the table provider has a candidate for the
\* weight the run returns candidates, and a mixed run fails only with an empty merge.
C12_MixedToleratesFailure ==
    /\ (MixedWithFailedCall(frRun) /\ TabelaQuotes(TotalWeight(frRun.request)) # <<>>) =>
          /\ frRun.kind = "return"
          /\ frRun.options # <<>>
          /\ \A i \in 1..Len(frRun.options) : frRun.options[i].source = "tabela"
    /\ (frRun.strategy = Some("BOTH") /\ frRun.kind = "throw" /\ frRun.persist # "failed") =>
          /\ frRun.code = "NO_FREIGHT_OPTIONS"
          /\ \A p \in DOMAIN frRun.answers : frRun.answers[p] # "quotes"

\* a candidate of the freight service as the ranking engine takes it
ToCandidate(option) == Candidate(option.id, option.price, option.deliveryTime)

ToCandidates(options) == [i \in 1..Len(options) |-> ToCandidate(options[i])]

\* the engine's score of an option of a run among the run's merged candidates, under
\* the default weights
RunScore(option, run) == Score(ToCandidate(option), ToCandidates(run.merged), DEFAULT_STRATEGY, None)

\* a run that fetched candidates, capped them and returned
ComputedRun(run) == run.kind = "return" /\ ~run.cacheHit

\* the elements of a list
Range(list) == {list[i] : i \in 1..Len(list)}

\* C15: the options calculateFreight returns are at most maxOptionsToReturn
\* candidates of the merged set, they are in ascending order of the ranking engine's
\* weighted score (price 0.6, time 0.4), and no candidate left out scores lower than
\* one that was returned.
C15_LowestScoring ==
    ComputedRun(frRun) =>
        /\ Len(frRun.options) <= maxOptionsToReturn
        /\ Range(frRun.options) \subseteq Range(frRun.merged)
        /\ \A i, j \in 1..Len(frRun.options) :
              i < j => ~RatLess(RunScore(frRun.options[j], frRun), RunScore(frRun.options[i], frRun))
        /\ \A out \in Range(frRun.merged) \ Range(frRun.options) :
              \A kept \in Range(frRun.options) :
                  ~RatLess(RunScore(out, frRun), RunScore(kept, frRun))

\* C16: the result of calculateFreight holds the cheapest and the fastest candidate
\* of the merged set, also when the merged set has more than maxOptionsToReturn
\* candidates.
C16_ExtremesRetained ==
    ComputedRun(frRun) =>
        /\ \E kept \in Range(frRun.options) :
              kept.price
                  = calculateRanking(ToCandidates(frRun.merged), None, None).cheapestOption.price
        /\ \E kept \in Range(frRun.options) :
              kept.deliveryTime
                  = calculateRanking(ToCandidates(frRun.merged), None, None)
                        .fastestOption.deliveryDays

\* the run before the step computed and returned a result, and the step is a request
\* with the same fingerprint
SameFingerprintAgain ==
    /\ frRun.kind = "return"
    /\ frRun'.kind # "none"
    /\ CacheKey(frRun'.request) = CacheKey(frRun.request)

\* a computed result is in the cache under the fingerprint of its request
ResultStored ==
    ComputedRun(frRun) =>
        /\ CacheKey(frRun.request) \in DOMAIN frCache
        /\ frCache[CacheKey(frRun.request)].options = frRun.options

\* C17: after calculateFreight succeeds the capped, ordered result is in the cache
\* under the fingerprint (destination, totalWeight, quantity) of the request, and the
\* next request with that fingerprint, before the entry expires, returns the same
\* options, calls no provider and persists no simulation.
C17_ReadThroughCache ==
    /\ []ResultStored
    /\ [][ SameFingerprintAgain
              => /\ frRun'.kind = "return"
                 /\ frRun'.options = frRun.options
                 /\ frRun'.answers = NoAnswers
                 /\ frSims' = frSims ]_vars

-----------------------------------------------------------------------------
(* Melhor Envio provider: makeRequest, one fetch per step.                 *)

\* melhorEnvioConfig.maxRetries, the default of the maxRetries argument
DefaultMaxRetries == 2

\* the largest maxRetries a caller passes
MaxRetriesBound == 2

\* melhorEnvioConfig.retryDelay, in ms
retryDelay == 1000

RECURSIVE Pow2(_)
\* Math.pow(2, attempt)
Pow2(n) == IF n = 0 THEN 1 ELSE 2 * Pow2(n - 1)

\* what one fetch can end with: a response with a status, the abort of
\* AbortSignal.timeout, or a failure of the connection
FetchOutcomes ==
    { [kind |-> "response", status |-> st] : st \in {200, 400, 404, 499, 500, 502, 503} }
    \cup { [kind |-> "timeout", status |-> 0], [kind |-> "network", status |-> 0] }

\* response.ok
ResponseOk(outcome) ==
    outcome.kind = "response" /\ outcome.status >= 200 /\ outcome.status <= 299

\* an error classification that marks every failed response as retryable
ErrorOfAlwaysRetryable(outcome) ==
    IF outcome.kind = "response"
    THEN [class |-> "ProviderError", code |-> "MELHORENVIO_API_ERROR",
          status |-> outcome.status, isRetryable |-> TRUE]
    ELSE IF outcome.kind = "timeout"
    THEN [class |-> "TimeoutError", code |-> "", status |-> 0, isRetryable |-> FALSE]
    ELSE [class |-> "TypeError", code |-> "", status |-> 0, isRetryable |-> FALSE]

\* the error the try block ends with for a fetch that did not answer 2xx
ErrorOf(outcome) ==
    IF outcome.kind = "response"
    THEN [class |-> "ProviderError", code |-> "MELHORENVIO_API_ERROR",
          status |-> outcome.status, isRetryable |-> outcome.status >= 500]
    ELSE IF outcome.kind = "timeout"
    THEN [class |-> "TimeoutError", code |-> "", status |-> 0, isRetryable |-> FALSE]
    ELSE [class |-> "TypeError", code |-> "", status |-> 0, isRetryable |-> FALSE]

\* the ProviderError thrown from the catch block for a TimeoutError
TimeoutProviderError ==
    [class |-> "ProviderError", code |-> "MELHORENVIO_TIMEOUT", status |-> 0,
     isRetryable |-> TRUE]

NoRequestResult == [kind |-> "none", error |-> None]

InitRq ==
    /\ rqPc = "idle"
    /\ rqMax = DefaultMaxRetries
    /\ rqAttempt = 0
    /\ rqHistory = <<>>
    /\ rqWaits = <<>>
    /\ rqResult = NoRequestResult

\* makeRequest(endpoint, method, body, maxRetries) is called
RqStart(maxRetries) ==
    /\ rqPc \in {"idle", "done"}
    /\ rqPc' = "attempt"
    /\ rqMax' = maxRetries
    /\ rqAttempt' = 0
    /\ rqHistory' = <<>>
    /\ rqWaits' = <<>>
    /\ rqResult' = NoRequestResult
    /\ UNCHANGED <<smVars, sessVars, frVars, clVars, cfgVars, rkVars, appVars>>

\* one pass of the loop body: the fetch ends with outcome, then the try or the catch
RqAttempt(outcome) ==
    /\ rqPc = "attempt"
    /\ rqHistory' = Append(rqHistory, outcome)
    /\ IF ResponseOk(outcome)
       THEN /\ rqPc' = "done"
            /\ rqResult' = [kind |-> "return", error |-> None]
            /\ UNCHANGED <<rqWaits>>
       ELSE IF ErrorOf(outcome).class = "TimeoutError"
       THEN /\ rqPc' = "done"
            /\ rqResult' = [kind |-> "throw", error |-> Some(TimeoutProviderError)]
            /\ UNCHANGED <<rqWaits>>
       ELSE IF /\ rqAttempt < rqMax
               /\ ErrorOf(outcome).class = "ProviderError"
               /\ ErrorOf(outcome).isRetryable
       THEN /\ rqPc' = "backoff"
            /\ rqWaits' = Append(rqWaits, retryDelay * Pow2(rqAttempt))
            /\ UNCHANGED <<rqResult>>
       ELSE /\ rqPc' = "done"
            /\ rqResult' = [kind |-> "throw", error |-> Some(ErrorOf(outcome))]
            /\ UNCHANGED <<rqWaits>>
    /\ UNCHANGED <<rqMax, rqAttempt, smVars, sessVars, frVars, clVars, cfgVars, rkVars, appVars>>

\* the timer of the backoff fires: attempt++ and the loop test, true after a retry
RqBackoff ==
    /\ rqPc = "backoff"
    /\ rqAttempt' = rqAttempt + 1
    /\ rqPc' = "attempt"
    /\ UNCHANGED <<rqMax, rqHistory, rqWaits, rqResult, smVars, sessVars, frVars, clVars, cfgVars, rkVars, appVars>>

NextRq ==
    \/ \E maxRetries \in 0..MaxRetriesBound : RqStart(maxRetries)
    \/ \E outcome \in FetchOutcomes : RqAttempt(outcome)
    \/ RqBackoff

-----------------------------------------------------------------------------
(* Properties of the provider request.                                     *)

ServerError(outcome) == outcome.kind = "response" /\ outcome.status >= 500

\* a request is under way
RequestRunning == rqPc \in {"attempt", "backoff"}

\* what holds of a request at every moment: the bound on the attempts, which
\* failures were followed by another attempt, the delays, and how it ended
RequestShape ==
    /\ Len(rqHistory) <= rqMax + 1
    /\ \A i \in 1..Len(rqHistory) :
          (i < Len(rqHistory) \/ rqPc # "done") => ServerError(rqHistory[i])
    /\ Len(rqWaits) = (IF rqPc = "done" THEN Len(rqHistory) - 1 ELSE Len(rqHistory))
    /\ \A i \in 1..Len(rqWaits) : rqWaits[i] = 1000 * (2 ^ (i - 1))
    /\ rqPc = "backoff" => Len(rqHistory) <= rqMax
    /\ rqPc = "done" =>
          LET last == rqHistory[Len(rqHistory)] IN
          /\ rqHistory # <<>>
          /\ ServerError(last) => Len(rqHistory) = rqMax + 1
          /\ IF last.kind = "response" /\ last.status \in 200..299
             THEN rqResult.kind = "return"
             ELSE /\ rqResult.kind = "throw"
                  /\ last.kind = "response" => Val(rqResult.error).status = last.status
                  /\ last.kind = "timeout" => Val(rqResult.error).code = "MELHORENVIO_TIMEOUT"
                  /\ last.kind = "network" => Val(rqResult.error).class = "TypeError"

\* C13: a provider request makes at most maxRetries + 1 attempts and always ends:
\* after a 5xx answer, while attempts remain, it waits retryDelay * 2^attempt and
\* tries again; after a 4xx answer it makes no further attempt; it ends with the
\* first successful response or with the error of the last attempt.
C13_BoundedRetries ==
    /\ []RequestShape
    /\ RequestRunning ~> (rqPc = "done")

\* three attempts for maxRetries = 2, slept 1000 ms and 2000 ms, ended with the 503
C13_Witness ==
    /\ rqPc = "done"
    /\ rqMax = 2
    /\ Len(rqHistory) = 3
    /\ rqWaits = <<1000, 2000>>
    /\ rqHistory[3].status = 503
    /\ rqResult.kind = "throw"

\* C14: an attempt that times out is retried like a 5xx answer: while attempts
\* remain, the request sleeps the backoff delay and tries again.
C14_TimeoutRetried ==
    \A i \in 1..Len(rqHistory) :
        (rqHistory[i].kind = "timeout" /\ i <= rqMax) =>
            /\ Len(rqWaits) >= i
            /\ rqWaits[i] = retryDelay * Pow2(i - 1)
            /\ ~(rqPc = "done" /\ i = Len(rqHistory))

-----------------------------------------------------------------------------
(* Intent classifier. A message is a sequence of one-character strings.    *)

LowerLetters ==
    {"a", "b", "c", "d", "e", "f", "g", "h", "i", "j", "k", "l", "m",
     "n", "o", "p", "q", "r", "s", "t", "u", "v", "w", "x", "y", "z"}

\* String.prototype.toLowerCase on one character
ToLower(c) ==
    CASE c = "F" -> "f" [] c = "R" -> "r" [] c = "E" -> "e" [] c = "T" -> "t"
      [] c = "N" -> "n" [] c = "A" -> "a" [] c = "C" -> "c" [] c = "Ã" -> "ã"
      [] OTHER -> c

\* normalize('NFD') followed by the removal of the combining marks U+0300-U+036F
StripAccent(c) ==
    CASE c = "ã" -> "a" [] c = "á" -> "a" [] c = "ç" -> "c" [] c = "é" -> "e"
      [] OTHER -> c

IsSpace(c) == c = " "

RECURSIVE TrimLeft(_)
TrimLeft(m) == IF m # <<>> /\ IsSpace(Head(m)) THEN TrimLeft(Tail(m)) ELSE m

RECURSIVE TrimRight(_)
TrimRight(m) ==
    IF m # <<>> /\ IsSpace(m[Len(m)]) THEN TrimRight(SubSeq(m, 1, Len(m) - 1)) ELSE m

\* String.prototype.trim
Trim(m) == TrimRight(TrimLeft(m))

\* normalize(message)
normalize(message) ==
    LET lowered == [i \in 1..Len(message) |-> ToLower(message[i])]
        trimmed == Trim(lowered)
    IN  [i \in 1..Len(trimmed) |-> StripAccent(trimmed[i])]

\* message.includes(kw)
Includes(message, kw) ==
    \E i \in 1..(Len(message) - Len(kw) + 1) : SubSeq(message, i, i + Len(kw) - 1) = kw

\* the keywords of isFreightQuery
FreightKeywords ==
    { <<"f", "r", "e", "t", "e">>,
      <<"c", "o", "t", "a", "c", "a", "o">>,
      <<"c", "o", "t", "a", "ç", "ã", "o">>,
      <<"e", "n", "v", "i", "o">>,
      <<"e", "n", "t", "r", "e", "g", "a">>,
      <<"s", "h", "i", "p", "p", "i", "n", "g">>,
      <<"f", "r", "e", "i", "g", "h", "t">>,
      <<"q", "u", "a", "n", "t", "o", " ", "c", "u", "s", "t", "a">>,
      <<"v", "a", "l", "o", "r", " ", "d", "o", " ", "f", "r", "e", "t", "e">>,
      <<"c", "a", "l", "c", "u", "l", "a", "r", " ", "f", "r", "e", "t", "e">> }

\* the keywords of isResetIntent
ResetKeywords ==
    { <<"r", "e", "i", "n", "i", "c", "i", "a", "r">>,
      <<"r", "e", "c", "o", "m", "e", "c", "a", "r">>,
      <<"r", "e", "s", "t", "a", "r", "t">>,
      <<"r", "e", "s", "e", "t">>,
      <<"v", "o", "l", "t", "a", "r">>,
      <<"c", "o", "m", "e", "c", "a", "r", " ", "d", "e", " ", "n", "o", "v", "o">> }

\* the keywords of isCancelIntent
CancelKeywords ==
    { <<"c", "a", "n", "c", "e", "l", "a", "r">>,
      <<"c", "a", "n", "c", "e", "l">>,
      <<"s", "a", "i", "r">>,
      <<"p", "a", "r", "a", "r">>,
      <<"s", "t", "o", "p">> }

\* the keywords of isHelpIntent
HelpKeywords ==
    { <<"a", "j", "u", "d", "a">>,
      <<"h", "e", "l", "p">>,
      <<"s", "o", "c", "o", "r", "r", "o">>,
      <<"c", "o", "m", "o", " ", "f", "u", "n", "c", "i", "o", "n", "a">>,
      <<"n", "a", "o", " ", "e", "n", "t", "e", "n", "d", "i">>,
      <<"n", "ã", "o", " ", "e", "n", "t", "e", "n", "d", "i">> }

\* the keywords of isTrackingQuery
TrackingKeywords ==
    { <<"r", "a", "s", "t", "r", "e", "a", "r">>,
      <<"r", "a", "s", "t", "r", "e", "i", "o">>,
      <<"t", "r", "a", "c", "k", "i", "n", "g">>,
      <<"o", "n", "d", "e", " ", "e", "s", "t", "a">>,
      <<"o", "n", "d", "e", " ", "e", "s", "t", "á">>,
      <<"s", "t", "a", "t", "u", "s", " ", "d", "o", " ", "p", "e", "d", "i", "d", "o">> }

\* the keywords of isPaymentQuery
PaymentKeywords ==
    { <<"p", "a", "g", "a", "m", "e", "n", "t", "o">>,
      <<"p", "a", "y", "m", "e", "n", "t">>,
      <<"b", "o", "l", "e", "t", "o">>,
      <<"p", "i", "x">>,
      <<"p", "a", "g", "a", "r">>,
      <<"s", "e", "g", "u", "n", "d", "a", " ", "v", "i", "a">> }

\* the keywords of isHumanSupportRequest
HumanSupportKeywords ==
    { <<"a", "t", "e", "n", "d", "e", "n", "t", "e">>,
      <<"h", "u", "m", "a", "n", "o">>,
      <<"p", "e", "s", "s", "o", "a">>,
      <<"f", "a", "l", "a", "r", " ", "c", "o", "m", " ", "a", "l", "g", "u", "e", "m">>,
      <<"f", "a", "l", "a", "r", " ", "c", "o", "m", " ", "a", "l", "g", "u", "é", "m">>,
      <<"h", "u", "m", "a", "n">>,
      <<"a", "g", "e", "n", "t">> }

\* keywords.some((kw) => message.includes(kw))
SomeKeyword(keywords, message) == \E kw \in keywords : Includes(message, kw)

isFreightQuery(message) == SomeKeyword(FreightKeywords, message)

isResetIntent(message) == SomeKeyword(ResetKeywords, message)

isCancelIntent(message) == SomeKeyword(CancelKeywords, message)

isHelpIntent(message) == SomeKeyword(HelpKeywords, message)

isTrackingQuery(message) == SomeKeyword(TrackingKeywords, message)

isPaymentQuery(message) == SomeKeyword(PaymentKeywords, message)

isHumanSupportRequest(message) == SomeKeyword(HumanSupportKeywords, message)

\* \w of a regular expression without the u flag
IsWordChar(c) == c \in LowerLetters \/ IsDigit(c) \/ c = "_"

WordAt(m, i) == i >= 1 /\ i <= Len(m) /\ IsWordChar(m[i])

\* \b between position i - 1 and position i
Boundary(m, i) == WordAt(m, i - 1) # WordAt(m, i)

\* \d{n} at position i
DigitsAt(m, i, n) == i + n - 1 <= Len(m) /\ \A j \in i..(i + n - 1) : IsDigit(m[j])

\* /\b(\d{5})-?(\d{3})\b/ matches at position i, with the hyphen
CepAtHyphen(m, i) ==
    /\ Boundary(m, i) /\ DigitsAt(m, i, 5)
    /\ i + 5 <= Len(m) /\ m[i + 5] = "-"
    /\ DigitsAt(m, i + 6, 3) /\ Boundary(m, i + 9)

\* the same, without the hyphen
CepAtPlain(m, i) ==
    /\ Boundary(m, i) /\ DigitsAt(m, i, 5)
    /\ DigitsAt(m, i + 5, 3) /\ Boundary(m, i + 8)

\* an extractCEP that returns the whole match, hyphen included
extractCEPWhole(message) ==
    LET starts == {i \in 1..Len(message) : CepAtHyphen(message, i) \/ CepAtPlain(message, i)}
        first == CHOOSE i \in starts : \A j \in starts : i <= j
    IN  IF starts = {} THEN None
        ELSE Some(SubSeq(message, first,
                         IF CepAtHyphen(message, first) THEN first + 8 ELSE first + 7))

\* extractCEP(message): match[1] + match[2] of the leftmost match, or null
extractCEP(message) ==
    LET starts == {i \in 1..Len(message) : CepAtHyphen(message, i) \/ CepAtPlain(message, i)}
        first == CHOOSE i \in starts : \A j \in starts : i <= j
    IN  IF starts = {} THEN None
        ELSE Some(SubSeq(message, first, first + 4)
                  \o (IF CepAtHyphen(message, first)
                      THEN SubSeq(message, first + 6, first + 8)
                      ELSE SubSeq(message, first + 5, first + 7)))

DigitValue(c) ==
    CASE c = "0" -> 0 [] c = "1" -> 1 [] c = "2" -> 2 [] c = "3" -> 3 [] c = "4" -> 4
      [] c = "5" -> 5 [] c = "6" -> 6 [] c = "7" -> 7 [] c = "8" -> 8 [] c = "9" -> 9

RECURSIVE ParseInt(_)
\* parseInt(digits, 10) of a run of digits
ParseInt(digits) ==
    IF digits = <<>> THEN 0
    ELSE 10 * ParseInt(SubSeq(digits, 1, Len(digits) - 1)) + DigitValue(digits[Len(digits)])

\* /\b(\d{1,4})\b/ matches n digits at position i
QuantityAt(m, i, n) == Boundary(m, i) /\ DigitsAt(m, i, n) /\ Boundary(m, i + n)

\* extractQuantity(message): the leftmost match, null unless 0 < quantity < 10000
extractQuantity(message) ==
    LET starts == {i \in 1..Len(message) : \E n \in 1..4 : QuantityAt(message, i, n)}
        first == CHOOSE i \in starts : \A j \in starts : i <= j
        width == CHOOSE n \in 1..4 : QuantityAt(message, first, n)
        quantity == ParseInt(SubSeq(message, first, first + width - 1))
    IN  IF starts = {} THEN None
        ELSE IF quantity > 0 /\ quantity < 10000 THEN Some(quantity) ELSE None

\* IntentResult; confidence in tenths
Intent(intent, confidence, cep, quantity) ==
    [intent |-> intent, confidence |-> confidence, cep |-> cep, quantity |-> quantity]

\* a classify that looks for the freight keywords before the postal code
classifyKeywordsFirst(message) ==
    LET normalized == normalize(message) IN
    IF isResetIntent(normalized) THEN Intent("RESET", 10, None, None)
    ELSE IF isCancelIntent(normalized) THEN Intent("CANCEL", 10, None, None)
    ELSE IF isHelpIntent(normalized) THEN Intent("HELP", 10, None, None)
    ELSE IF isFreightQuery(normalized) THEN Intent("FREIGHT_QUERY", 9, None, None)
    ELSE IF IsSome(extractCEP(normalized))
    THEN Intent("PROVIDE_CEP", 10, extractCEP(normalized), None)
    ELSE IF extractQuantity(normalized) # None
    THEN Intent("PROVIDE_QUANTITY", 10, None, extractQuantity(normalized))
    ELSE IF isTrackingQuery(normalized) THEN Intent("TRACK_ORDER", 8, None, None)
    ELSE IF isPaymentQuery(normalized) THEN Intent("PAYMENT_STATUS", 8, None, None)
    ELSE IF isHumanSupportRequest(normalized) THEN Intent("HUMAN_SUPPORT", 9, None, None)
    ELSE Intent("UNKNOWN", 0, None, None)

\* classify(message)
classify(message) ==
    LET normalized == normalize(message) IN
    IF isResetIntent(normalized) THEN Intent("RESET", 10, None, None)
    ELSE IF isCancelIntent(normalized) THEN Intent("CANCEL", 10, None, None)
    ELSE IF isHelpIntent(normalized) THEN Intent("HELP", 10, None, None)
    ELSE IF IsSome(extractCEP(normalized))
    THEN Intent("PROVIDE_CEP", 10, extractCEP(normalized), None)
    ELSE IF extractQuantity(normalized) # None
    THEN Intent("PROVIDE_QUANTITY", 10, None, extractQuantity(normalized))
    ELSE IF isFreightQuery(normalized) THEN Intent("FREIGHT_QUERY", 9, None, None)
    ELSE IF isTrackingQuery(normalized) THEN Intent("TRACK_ORDER", 8, None, None)
    ELSE IF isPaymentQuery(normalized) THEN Intent("PAYMENT_STATUS", 8, None, None)
    ELSE IF isHumanSupportRequest(normalized) THEN Intent("HUMAN_SUPPORT", 9, None, None)
    ELSE Intent("UNKNOWN", 0, None, None)

\* hasMultipleIntents(message)
hasMultipleIntents(message) ==
    LET normalized == normalize(message)
        intentCount ==
            (IF isFreightQuery(normalized) THEN 1 ELSE 0)
            + (IF IsSome(extractCEP(normalized)) THEN 1 ELSE 0)
            + (IF IsSome(extractQuantity(normalized)) THEN 1 ELSE 0)
            + (IF isTrackingQuery(normalized) THEN 1 ELSE 0)
            + (IF isPaymentQuery(normalized) THEN 1 ELSE 0)
    IN  intentCount > 1

\* the words callers send
Words ==
    { <<"r", "e", "s", "e", "t">>,
      <<"c", "a", "n", "c", "e", "l", "a", "r">>,
      <<"a", "j", "u", "d", "a">>,
      <<"1", "2", "3", "4", "5", "-", "6", "7", "8">>,
      <<"1", "2", "3", "4", "5", "6", "7", "8">>,
      <<"5">>,
      <<"0">>,
      <<"9", "9", "9", "9">>,
      <<"1", "0", "0", "0", "0">>,
      <<"f", "r", "e", "t", "e">>,
      <<"r", "a", "s", "t", "r", "e", "a", "r">>,
      <<"p", "i", "x">>,
      <<"a", "t", "e", "n", "d", "e", "n", "t", "e">>,
      <<"o", "i">>,
      <<"F", "R", "E", "T", "E">>,
      <<"C", "o", "t", "a", "ç", "ã", "o">>,
      <<"1", "2", "3", "4", "5", "6", "7", "8", "9">>,
      <<"p", "a", "r", "a">>,
      <<"0", "1", "0", "0", "1", "-", "0", "0", "0">>,
      <<"u", "n", "i", "d", "a", "d", "e", "s">> }

\* the message of the classifier's test: 'frete para 01001-000 com 5 unidades'
TestMessage ==
    <<"f", "r", "e", "t", "e", " ", "p", "a", "r", "a", " ", "0", "1", "0", "0", "1", "-", "0", "0", "0", " ", "c", "o", "m", " ", "5", " ", "u", "n", "i", "d", "a", "d", "e", "s">>

\* the longest message is MaxWords words
MaxWords == 2

RECURSIVE Phrases(_)
\* the messages of n words, separated by one space
Phrases(n) ==
    IF n = 1 THEN Words
    ELSE {p \o <<" ">> \o w : p \in Phrases(n - 1), w \in Words}

Messages ==
    UNION {Phrases(n) : n \in 1..MaxWords}
    \cup {TestMessage, <<>>, <<" ", "R", "e", "s", "e", "t", " ">>}

NoClassification == [result |-> Intent("UNKNOWN", 0, None, None), multiple |-> FALSE]

InitCl ==
    /\ clText = <<>>
    /\ clResult = NoClassification

\* intentClassifier.classify(message) and intentClassifier.hasMultipleIntents(message)
ClClassify(message) ==
    /\ clText = <<>>
    /\ clResult = NoClassification
    /\ clText' = message
    /\ clResult' = [result |-> classify(message), multiple |-> hasMultipleIntents(message)]
    /\ UNCHANGED <<smVars, sessVars, frVars, rqVars, cfgVars, rkVars, appVars>>

\* the caller has used the answers; the classifier keeps nothing between calls
ClReturn ==
    /\ clText # <<>>
    /\ clText' = <<>>
    /\ clResult' = NoClassification
    /\ UNCHANGED <<smVars, sessVars, frVars, rqVars, cfgVars, rkVars, appVars>>

NextCl ==
    \/ \E message \in Messages : ClClassify(message)
    \/ ClReturn

-----------------------------------------------------------------------------
(* Properties of the intent classifier.                                    *)

\* the rules in the order of the claim: <<the rule fires, intent, confidence in tenths>>
RulesInOrder(text) ==
    LET n == normalize(text) IN
    << <<isResetIntent(n), "RESET", 10>>,
       <<isCancelIntent(n), "CANCEL", 10>>,
       <<isHelpIntent(n), "HELP", 10>>,
       <<IsSome(extractCEP(n)), "PROVIDE_CEP", 10>>,
       <<IsSome(extractQuantity(n)), "PROVIDE_QUANTITY", 10>>,
       <<isFreightQuery(n), "FREIGHT_QUERY", 9>>,
       <<isTrackingQuery(n), "TRACK_ORDER", 8>>,
       <<isPaymentQuery(n), "PAYMENT_STATUS", 8>>,
       <<isHumanSupportRequest(n), "HUMAN_SUPPORT", 9>> >>

ResetAndCode == <<"r", "e", "s", "e", "t", " ", "1", "2", "3", "4", "5", "-", "6", "7", "8">>

CodeAndFreight == <<"1", "2", "3", "4", "5", "-", "6", "7", "8", " ", "f", "r", "e", "t", "e">>

\* a message has been classified
Classified == clText # <<>>

\* C18: classify answers with the intent of the first rule that fires, in the order
\* Reset, Cancel, Help, postal code, quantity, freight, tracking, payment, human
\* support, else Unknown, with confidence 1.0 for the first five, 0.9 for freight and
\* human support, 0.8 for tracking and payment, 0.0 for Unknown.
C18_FirstMatchWins ==
    Classified =>
        LET rules == RulesInOrder(clText)
            fired == {i \in 1..Len(rules) : rules[i][1]}
        IN  /\ fired = {} =>
                  (clResult.result.intent = "UNKNOWN" /\ clResult.result.confidence = 0)
            /\ \A i \in fired :
                  (\A j \in fired : i <= j) =>
                      /\ clResult.result.intent = rules[i][2]
                      /\ clResult.result.confidence = rules[i][3]
            /\ clText = ResetAndCode => clResult.result.intent = "RESET"
            /\ clText = CodeAndFreight => clResult.result.intent = "PROVIDE_CEP"

C18_Witness ==
    /\ clText = CodeAndFreight
    /\ clResult.result.intent = "PROVIDE_CEP"
    /\ clResult.result.confidence = 10

\* the text with its hyphens taken out
WithoutHyphens(text) == SelectSeq(text, LAMBDA c : c # "-")

\* C19: a ProvideDestination answer carries exactly 8 digits, the same for the
\* hyphenated and the plain form of a code; a ProvideQuantity answer carries an
\* integer from 1 to 9999.
C19_ExtractedData ==
    /\ (Classified /\ clResult.result.intent = "PROVIDE_CEP") =>
          /\ IsSome(clResult.result.cep)
          /\ Len(Val(clResult.result.cep)) = 8
          /\ \A i \in 1..8 : Val(clResult.result.cep)[i] \in Digits
          /\ classify(WithoutHyphens(clText)).cep = clResult.result.cep
    /\ (Classified /\ clResult.result.intent = "PROVIDE_QUANTITY") =>
          /\ IsSome(clResult.result.quantity)
          /\ Val(clResult.result.quantity) \in 1..9999

C19_Witness ==
    /\ clText = <<"1", "2", "3", "4", "5", "-", "6", "7", "8">>
    /\ clResult.result.intent = "PROVIDE_CEP"
    /\ clResult.result.cep = Some(<<"1", "2", "3", "4", "5", "6", "7", "8">>)

\* the signals of steps 4 to 8 that fire for the text, each looked at on its own
SignalsFired(text) ==
    LET n == normalize(text) IN
    {sig \in {"cep", "quantity", "freight", "tracking", "payment", "human"} :
        CASE sig = "cep"      -> IsSome(extractCEP(n))
          [] sig = "quantity" -> IsSome(extractQuantity(n))
          [] sig = "freight"  -> isFreightQuery(n)
          [] sig = "tracking" -> isTrackingQuery(n)
          [] sig = "payment"  -> isPaymentQuery(n)
          [] sig = "human"    -> isHumanSupportRequest(n)}

\* C20: hasMultipleIntents(text) is true exactly when at least two of the signals
\* postal code, bare quantity, freight, tracking, payment and human support fire;
\* the word "frete" alone and one postal code "12345-678" alone yield false.
C20_MultipleIntents ==
    Classified =>
        /\ clResult.multiple <=> Cardinality(SignalsFired(clText)) >= 2
        /\ clText = <<"f", "r", "e", "t", "e">> => ~clResult.multiple
        /\ clText = <<"1", "2", "3", "4", "5", "-", "6", "7", "8">> => ~clResult.multiple

\* the words of the text from position i to position j: a run of characters between
\* spaces or the ends of the text
TokenAt(text, i, j) ==
    /\ i <= j
    /\ \A k \in i..j : ~IsSpace(text[k])
    /\ (i = 1 \/ IsSpace(text[i - 1]))
    /\ (j = Len(text) \/ IsSpace(text[j + 1]))

\* the standalone integer tokens of the text that lie in 1..9999
QuantityTokens(text) ==
    LET tokens == {t \in (1..Len(text)) \X (1..Len(text)) :
                      /\ TokenAt(text, t[1], t[2])
                      /\ t[2] - t[1] < 4
                      /\ \A k \in t[1]..t[2] : text[k] \in Digits}
    IN  {ParseInt(SubSeq(text, t[1], t[2])) : t \in tokens} \cap (1..9999)

\* C37: when no reset, cancel or help keyword and no postal code is present, a message
\* that contains at least one standalone integer token in [1, 9999] is classified
\* ProvideQuantity with such a token as the quantity, wherever the token stands and
\* whatever other numeric tokens precede it.
C37_AnyQuantityToken ==
    (/\ Classified
     /\ ~SomeKeyword(ResetKeywords \cup CancelKeywords \cup HelpKeywords, normalize(clText))
     /\ ~IsSome(extractCEP(normalize(clText)))
     /\ QuantityTokens(clText) # {}) =>
        /\ clResult.result.intent = "PROVIDE_QUANTITY"
        /\ IsSome(clResult.result.quantity)
        /\ Val(clResult.result.quantity) \in QuantityTokens(clText)

-----------------------------------------------------------------------------
(* Session keys: getKey and getOldKey over the identifiers callers may pass *)

\* the characters of an identifier
IdChars == {"a", "b", ":"}

\* the longest identifier
MaxIdLen == 2

\* the non-empty identifiers
Identifiers == UNION {[1..n -> IdChars] : n \in 1..MaxIdLen}

NoKeys == [tenantId |-> EmptyString, phoneNumber |-> EmptyString,
           key |-> EmptyString, oldKey |-> EmptyString]

InitKey == keyRun = NoKeys

\* the keys getSession works with for (tenantId, phoneNumber)
KeyBuild(tenantId, phoneNumber) ==
    /\ keyRun = NoKeys
    /\ keyRun' = [tenantId |-> tenantId, phoneNumber |-> phoneNumber,
                  key |-> getKey(tenantId, phoneNumber), oldKey |-> getOldKey(phoneNumber)]
    /\ UNCHANGED <<coreVars, rlVars, fqVars, ccVars, orchVars>>

\* the call is over; the manager keeps no key
KeyReturn ==
    /\ keyRun # NoKeys
    /\ keyRun' = NoKeys
    /\ UNCHANGED <<coreVars, rlVars, fqVars, ccVars, orchVars>>

NextKey ==
    \/ \E tenantId \in Identifiers, phoneNumber \in Identifiers : KeyBuild(tenantId, phoneNumber)
    \/ KeyReturn

\* C39: two different (tenantId, userId) pairs of non-empty identifiers never map to
\* the same key session:{tenantId}:{userId}, and the legacy key session:{userId} of one
\* user is never the tenant-scoped key of a (tenantId, userId) pair.
C39_KeysUnambiguous ==
    keyRun # NoKeys =>
        \A tenantId \in Identifiers, phoneNumber \in Identifiers :
            /\ getKey(tenantId, phoneNumber) = keyRun.key
                  => (tenantId = keyRun.tenantId /\ phoneNumber = keyRun.phoneNumber)
            /\ getKey(tenantId, phoneNumber) # keyRun.oldKey

\* the same, for identifiers without a colon
C39_WithoutColon ==
    (keyRun # NoKeys /\ \A i \in 1..Len(keyRun.tenantId) : keyRun.tenantId[i] # ":") =>
        \A tenantId \in Identifiers, phoneNumber \in Identifiers :
            (\A i \in 1..Len(tenantId) : tenantId[i] # ":") =>
                (getKey(tenantId, phoneNumber) = keyRun.key
                    => (tenantId = keyRun.tenantId /\ phoneNumber = keyRun.phoneNumber))

-----------------------------------------------------------------------------
(* Rate limiter: checkRateLimit over RedisClient, for one identifier.       *)

MAX_REQUESTS_PER_MINUTE == 10

\* WINDOW_SECONDS, in ticks of half a window
WINDOW_SECONDS == 2

\* the clock of the rate limiter stops here
MaxRlTime == 2

\* no call starts at a time at which this many calls were allowed already
MaxGrants == 11

\* the webhook invocations that may run at the same time
RlCallers == {"w1", "w2"}

RlIdle == [pc |-> "idle", current |-> 0]

InitRl ==
    /\ rlStore = None
    /\ rlNow = 0
    /\ rlCalls = [c \in RlCallers |-> RlIdle]
    /\ rlGrants = [t \in 0..MaxRlTime |-> 0]
    /\ rlHistory = [failed |-> FALSE, overlapped |-> FALSE]

\* the value the backend holds under the key: gone once its ttl has run out
RlLive == IsSome(rlStore) /\ rlNow < Val(rlStore).exp

\* a call returns { allowed: true, ... }
RlAllow(c) ==
    /\ rlGrants' = [rlGrants EXCEPT ![rlNow] = @ + 1]
    /\ rlCalls' = [rlCalls EXCEPT ![c] = RlIdle]

\* checkRateLimit up to the answer of redisClient.get: without a backend the call is
\* allowed at once; a failed GET reads as null, so current is 0
RlRead(c, ok) ==
    /\ rlCalls[c].pc = "idle"
    /\ rlGrants[rlNow] < MaxGrants
    /\ IF ~redisUp
       THEN RlAllow(c) /\ UNCHANGED <<rlStore, rlHistory>>
       ELSE /\ rlCalls' = [rlCalls EXCEPT ![c] =
                             [pc |-> "read",
                              current |-> IF ok /\ RlLive THEN Val(rlStore).value ELSE 0]]
            /\ rlHistory' = [failed |-> rlHistory.failed \/ ~ok,
                             overlapped |-> rlHistory.overlapped
                                              \/ \E d \in RlCallers \ {c} : rlCalls[d].pc = "read"]
            /\ UNCHANGED <<rlStore, rlGrants>>
    /\ UNCHANGED rlNow

\* checkRateLimit from the comparison on: at the limit the call is refused, below it
\* the counter is set to current + 1 with a fresh ttl and the call is allowed
RlDecide(c, ok) ==
    /\ rlCalls[c].pc = "read"
    /\ IF rlCalls[c].current >= MAX_REQUESTS_PER_MINUTE
       THEN /\ rlCalls' = [rlCalls EXCEPT ![c] = RlIdle]
            /\ rlHistory' = [rlHistory EXCEPT !.failed = @ \/ ~ok]
            /\ UNCHANGED <<rlStore, rlGrants>>
       ELSE /\ rlStore' = IF ok
                          THEN Some([value |-> rlCalls[c].current + 1,
                                     exp |-> rlNow + WINDOW_SECONDS])
                          ELSE rlStore
            /\ rlHistory' = [rlHistory EXCEPT !.failed = @ \/ ~ok]
            /\ RlAllow(c)
    /\ UNCHANGED rlNow

\* half a window passes
RlTick ==
    /\ rlNow < MaxRlTime
    /\ rlNow' = rlNow + 1
    /\ UNCHANGED <<rlStore, rlCalls, rlGrants, rlHistory>>

NextRl ==
    \/ \E c \in RlCallers, ok \in BOOLEAN :
          RlRead(c, ok) /\ UNCHANGED <<coreVars, keyVars, fqVars, ccVars, orchVars>>
    \/ \E c \in RlCallers, ok \in BOOLEAN :
          RlDecide(c, ok) /\ UNCHANGED <<coreVars, keyVars, fqVars, ccVars, orchVars>>
    \/ RlTick /\ UNCHANGED <<coreVars, keyVars, fqVars, ccVars, orchVars>>

\* the calls allowed within the window that starts at time t
AllowedInWindow(t) ==
    LET RECURSIVE Sum(_)
        Sum(k) == IF k >= WINDOW_SECONDS \/ t + k > MaxRlTime THEN 0
                  ELSE rlGrants[t + k] + Sum(k + 1)
    IN  Sum(0)

\* C40: while the backend is available, at most MAX_REQUESTS_PER_MINUTE (10) calls per
\* identifier are allowed within one 60-second window, also when several
\* checkRateLimit calls for the identifier run concurrently.
C40_AtMostTenPerWindow ==
    (redisUp /\ ~rlHistory.failed) =>
        \A t \in 0..MaxRlTime : AllowedInWindow(t) <= MAX_REQUESTS_PER_MINUTE

\* the same, as long as no two calls were in flight together
C40_OneCallAtATime ==
    (redisUp /\ ~rlHistory.failed /\ ~rlHistory.overlapped) =>
        \A t \in 0..MaxRlTime : AllowedInWindow(t) <= MAX_REQUESTS_PER_MINUTE

-----------------------------------------------------------------------------
(* fetchQuotes, one provider call after another: a call is in flight from  *)
(* the moment it is issued until its promise settles.                      *)

\* what a call of MelhorEnvioProvider.calculateShipping can do, a single quote and a
\* pair of quotes among them
FqMeBehaviours ==
    MeBehaviours \cup { [kind |-> "return", quotes |-> <<MeA>>],
                        [kind |-> "return", quotes |-> <<MeB, MeC>>] }

\* fetchQuotes is reached by the requests that pass validateRequest; orders of 30, 40
\* 60 units at the configured unit weight among them
FqRequests ==
    {r \in Requests \cup { [destinationCep |-> Str8, quantity |-> q, unitWeight |-> None] :
                              q \in {20, 30, 40, 60} } : validateRequest(r) = "ok"}

FqIdle ==
    [pc |-> "idle", request |-> None, totalWeight |-> 0, strategy |-> None,
     inFlight |-> {}, options |-> <<>>, kind |-> "none", code |-> ""]

InitFq == fqRun = FqIdle

\* fetchQuotes is over: it returns the options, or throws when there are none
FqEnd(run, options) ==
    IF options = <<>>
    THEN [run EXCEPT !.pc = "done", !.inFlight = {}, !.options = <<>>,
                     !.kind = "throw", !.code = "NO_FREIGHT_OPTIONS"]
    ELSE [run EXCEPT !.pc = "done", !.inFlight = {}, !.options = options, !.kind = "return"]

\* fetchQuotes(request, totalWeight, strategy) up to its first await: the Melhor
\* Envio call is issued when the strategy names it, else the Tabela call
FqEnter(request) ==
    /\ fqRun.pc = "idle"
    /\ LET totalWeight == TotalWeight(request)
           strategy == decideStrategy(totalWeight)
       IN  fqRun' = [FqIdle EXCEPT
                        !.pc = "awaiting",
                        !.request = Some(request),
                        !.totalWeight = totalWeight,
                        !.strategy = Some(strategy),
                        !.inFlight = IF strategy \in {"MELHORENVIO_ONLY", "BOTH"}
                                     THEN {"melhorenvio"} ELSE {"tabela"}]
    /\ UNCHANGED <<coreVars, keyVars, rlVars, ccVars, orchVars>>

\* the Melhor Envio call settles: a rejection ends fetchQuotes in its catch block, an
\* answer is pushed to options; then the Tabela call is issued under BOTH
FqMeSettles(me) ==
    /\ fqRun.pc = "awaiting"
    /\ "melhorenvio" \in fqRun.inFlight
    /\ fqRun' = IF me.kind = "throw"
                THEN [fqRun EXCEPT !.pc = "done", !.inFlight = {}, !.kind = "throw",
                                   !.code = "FREIGHT_CALCULATION_ERROR"]
                ELSE IF Val(fqRun.strategy) = "BOTH"
                THEN [fqRun EXCEPT !.inFlight = {"tabela"}, !.options = me.quotes]
                ELSE FqEnd(fqRun, me.quotes)
    /\ UNCHANGED <<coreVars, keyVars, rlVars, ccVars, orchVars>>

\* the Tabela call settles: its quotes are pushed to options
FqTabelaSettles ==
    /\ fqRun.pc = "awaiting"
    /\ "tabela" \in fqRun.inFlight
    /\ fqRun' = FqEnd(fqRun, fqRun.options \o TabelaQuotes(fqRun.totalWeight))
    /\ UNCHANGED <<coreVars, keyVars, rlVars, ccVars, orchVars>>

\* the caller has the outcome
FqLeave ==
    /\ fqRun.pc = "done"
    /\ fqRun' = FqIdle
    /\ UNCHANGED <<coreVars, keyVars, rlVars, ccVars, orchVars>>

NextFq ==
    \/ \E request \in FqRequests : FqEnter(request)
    \/ \E me \in FqMeBehaviours : FqMeSettles(me)
    \/ FqTabelaSettles
    \/ FqLeave

\* C32: in the mixed strategy the heavy-table call is issued without waiting for the
\* light-provider call to return: when the Tabela call of a BOTH request is issued,
\* the Melhor Envio call of that request is still in flight.
C32_CallsInFlightTogether ==
    [][ (/\ fqRun'.strategy = Some("BOTH")
         /\ "tabela" \in fqRun'.inFlight
         /\ "tabela" \notin fqRun.inFlight)
            => "melhorenvio" \in fqRun'.inFlight ]_vars

\* the two provider calls of a request are never in flight at the same time
C32_OneCallAtATime == Cardinality(fqRun.inFlight) <= 1

-----------------------------------------------------------------------------
(* The session store under concurrent callers: updateSession reads, awaits *)
(* and writes, and other calls run between its steps.                      *)

\* the callers whose updateSession calls may overlap
CcCallers == {"u1", "u2"}

\* a session ttl of two ticks
LongSessionTtl == 2

\* the clock of this part stops here
MaxCcTime == 3

\* the `updates` object of each caller: one sets the destination, the other the
\* quantity
CcUpdates(c) ==
    IF c = "u1" THEN [currentState |-> "AWAITING_QUANTITY", cep |-> Some(Str8)]
    ELSE [quantity |-> Some(5)]

\* every backend command of the call gets an answer
Answered(n) == [i \in 1..n |-> TRUE]

CcIdle == [pc |-> "idle", updates |-> NoUpdates, read |-> None, wrote |-> None]

InitCc ==
    /\ ccCalls = [c \in CcCallers |-> CcIdle]
    /\ ccTrace = <<>>

\* updateSession up to the answer of `await this.getSession(tenantId, phoneNumber)`
UpdRead(c) ==
    LET got == getSession(World(redis, memory, Answered(3)), TenantA, Phone1) IN
    /\ ccCalls[c].pc = "idle"
    /\ got.kind = "return"
    /\ redis' = got.w.redis
    /\ memory' = got.w.memory
    /\ ccCalls' = [ccCalls EXCEPT ![c] =
                      [pc |-> IF IsSome(got.value) THEN "write" ELSE "create",
                       updates |-> CcUpdates(c), read |-> got.value, wrote |-> None]]
    /\ ccTrace' = Append(ccTrace, <<c, "read">>)
    /\ sessLog' = got.w.log
    /\ sessOp' = NoOp("update")
    /\ UNCHANGED <<env, redisUp, now>>

\* updateSession, no session found: `session = await this.createSession(...)`
UpdCreate(c) ==
    LET created == createSession(World(redis, memory, Answered(1)), TenantA, Phone1) IN
    /\ ccCalls[c].pc = "create"
    /\ created.kind = "return"
    /\ redis' = created.w.redis
    /\ memory' = created.w.memory
    /\ ccCalls' = [ccCalls EXCEPT ![c].pc = "write", ![c].read = created.value]
    /\ ccTrace' = Append(ccTrace, <<c, "create">>)
    /\ sessLog' = created.w.log
    /\ sessOp' = NoOp("update")
    /\ UNCHANGED <<env, redisUp, now>>

\* an updateSession that has its updates applied to the record stored at the time of
\* the write
UpdWrittenOverStored(r, m, read, updates) ==
    LET current == getSession(World(r, m, Answered(3)), TenantA, Phone1).value
        updated == MergeUpdates(IF IsSome(current) THEN Val(current) ELSE read,
                                updates, TenantA, Phone1)
    IN  [record |-> updated,
         out |-> saveSession(World(r, m, Answered(1)), TenantA, Phone1, updated)]

\* updateSession from the merge on: { ...session, ...updates, tenantId, phoneNumber,
\* updatedAt } over the session read before, and saveSession of it
UpdWritten(r, m, read, updates) ==
    LET updated == MergeUpdates(read, updates, TenantA, Phone1)
    IN  [record |-> updated,
         out |-> saveSession(World(r, m, Answered(1)), TenantA, Phone1, updated)]

UpdWrite(c) ==
    LET written == UpdWritten(redis, memory, Val(ccCalls[c].read), ccCalls[c].updates) IN
    /\ ccCalls[c].pc = "write"
    /\ written.out.kind = "return"
    /\ redis' = written.out.w.redis
    /\ memory' = written.out.w.memory
    /\ ccCalls' = [ccCalls EXCEPT ![c].pc = "done", ![c].wrote = Some(written.record)]
    /\ ccTrace' = Append(ccTrace, <<c, "write">>)
    /\ sessLog' = written.out.w.log
    /\ sessOp' = NoOp("update")
    /\ UNCHANGED <<env, redisUp, now>>

\* the calls under way have returned
UpdReturn ==
    /\ \E c \in CcCallers : ccCalls[c].pc = "done"
    /\ \A c \in CcCallers : ccCalls[c].pc \in {"idle", "done"}
    /\ ccCalls' = [c \in CcCallers |-> CcIdle]
    /\ ccTrace' = <<>>
    /\ UNCHANGED sessVars

\* time passes; the backend drops the keys whose ttl has run out
CcTick ==
    /\ now < MaxCcTime
    /\ now' = now + 1
    /\ redis' = [k \in {j \in DOMAIN redis : now + 1 < redis[j].exp} |-> redis[k]]
    /\ sessLog' = {}
    /\ sessOp' = NoOp("tick")
    /\ UNCHANGED <<env, redisUp, memory, ccVars>>

NextCc ==
    \/ \E c \in CcCallers :
          UpdRead(c) /\ UNCHANGED <<smVars, frVars, rqVars, clVars, cfgVars, rkVars, keyVars, rlVars, fqVars, orchVars>>
    \/ \E c \in CcCallers :
          UpdCreate(c) /\ UNCHANGED <<smVars, frVars, rqVars, clVars, cfgVars, rkVars, keyVars, rlVars, fqVars, orchVars>>
    \/ \E c \in CcCallers :
          UpdWrite(c) /\ UNCHANGED <<smVars, frVars, rqVars, clVars, cfgVars, rkVars, keyVars, rlVars, fqVars, orchVars>>
    \/ UpdReturn /\ UNCHANGED <<smVars, frVars, rqVars, clVars, cfgVars, rkVars, keyVars, rlVars, fqVars, orchVars>>
    \/ SessGet(TenantA, Phone1, Answered(3)) /\ UNCHANGED <<smVars, frVars, rqVars, clVars, cfgVars, rkVars, appVars>>
    \/ CcTick /\ UNCHANGED <<smVars, frVars, rqVars, clVars, cfgVars, rkVars, keyVars, rlVars, fqVars, orchVars>>
    \/ Cleanup /\ UNCHANGED <<smVars, frVars, rqVars, clVars, cfgVars, rkVars, appVars>>

\* the record the store holds for the session of the callers, whatever its age
LeftInStore(r, m) ==
    IF redisUp
    THEN IF getKey(TenantA, Phone1) \in DOMAIN r
         THEN Some(Parse(r[getKey(TenantA, Phone1)].text)) ELSE None
    ELSE IF Phone1 \in DOMAIN m THEN Some(m[Phone1]) ELSE None

\* both calls read before either of them wrote
BothReadFirst(trace) ==
    /\ \A c \in CcCallers : \E i \in 1..Len(trace) : trace[i] = <<c, "read">>
    /\ \A i, j \in 1..Len(trace) :
          (trace[i][2] = "read" /\ trace[j][2] = "write") => i < j

\* C33: the session store applies no compare-and-swap: when two update calls for the
\* same (tenantId, userId) interleave so that both read before either writes, the
\* record left in the store is exactly the one written by the update that completed
\* last, and a field changed only by the other update is lost.
C33_LastWriterWins ==
    [][ \A c \in CcCallers, d \in CcCallers :
          (/\ c # d
           /\ ccCalls[c].pc = "write" /\ ccCalls'[c].pc = "done"
           /\ ccCalls[d].pc = "done"
           /\ BothReadFirst(ccTrace'))
            => LET left == LeftInStore(redis', memory') IN
               /\ left = ccCalls'[c].wrote
               /\ \A f \in DOMAIN ccCalls[d].updates \ DOMAIN ccCalls[c].updates :
                     ccCalls[d].updates[f] # Val(ccCalls[c].read)[f]
                        => /\ Val(left)[f] = Val(ccCalls[c].read)[f]
                           /\ Val(ccCalls[d].wrote)[f] = ccCalls[d].updates[f] ]_vars

\* both updates have completed, the one of the quantity last: the store holds its
\* record, without the destination the other update had written
C33_Witness ==
    /\ \A c \in CcCallers : ccCalls[c].pc = "done"
    /\ BothReadFirst(ccTrace)
    /\ ccTrace[Len(ccTrace)] = <<"u2", "write">>
    /\ LeftInStore(redis, memory) = ccCalls["u2"].wrote
    /\ Val(ccCalls["u1"].wrote).cep = Some(Str8)
    /\ Val(LeftInStore(redis, memory)).cep = None
    /\ Val(LeftInStore(redis, memory)).quantity = Some(5)

\* C34: a session is never served after it has expired: with either backend, if
\* get(t, u) returns a record r at time now then r.expiresAt >= now.
C34_NeverServedExpired ==
    (sessOp.name = "get" /\ sessOp.kind = "return" /\ IsSome(sessOp.value))
        => Val(sessOp.value).expiresAt >= now

\* the same for the fallback map, and the sweep removes exactly the entries whose
\* expiresAt has passed
C34_FallbackHonoursExpiry ==
    /\ (~redisUp /\ sessOp.name = "get" /\ sessOp.kind = "return" /\ IsSome(sessOp.value))
          => Val(sessOp.value).expiresAt >= now
    /\ [][ sessOp'.name = "cleanup"
             => /\ DOMAIN memory' = {k \in DOMAIN memory : memory[k].expiresAt >= now}
                /\ \A k \in DOMAIN memory' : memory'[k] = memory[k] ]_vars

-----------------------------------------------------------------------------
(* The freight controller (modules/freight/freight.controller.ts) over the *)
(* session manager it calls, the one that keeps one key per phone number.  *)

\* getKey(phoneNumber): `session:${phoneNumber}`
getPhoneKey(phoneNumber) == <<"session", ":">> \o phoneNumber

\* getSession(phoneNumber)
getSessionByPhone(w, phoneNumber) ==
    IF redisUp
    THEN LET found == redisGet(w, getPhoneKey(phoneNumber)) IN Ret(found.w, found.value)
    ELSE IF env = "production" THEN Thr(w, "InfrastructureError", "INTERNAL_ERROR")
    ELSE LET found == memGet(w, phoneNumber) IN Ret(found.w, found.value)

\* saveSession(phoneNumber, session)
saveSessionByPhone(w, phoneNumber, session) ==
    LET toRedis ==
            IF redisUp
            THEN LET set == redisSet(w, getPhoneKey(phoneNumber), session, sessionTtl) IN
                 IF set.ok THEN Ret(set.w, None)
                 ELSE IF env = "production"
                      THEN Thr(set.w, "InfrastructureError", "INTERNAL_ERROR")
                      ELSE Ret(Logged(set.w, <<"save_failed_using_memory">>), None)
            ELSE IF env = "production" THEN Thr(w, "InfrastructureError", "INTERNAL_ERROR")
            ELSE Ret(w, None)
    IN  IF toRedis.kind = "throw" THEN toRedis
        ELSE IF env # "production" THEN Ret(memSet(toRedis.w, phoneNumber, session), None)
        ELSE toRedis

\* the record createSession(phoneNumber) builds: no tenant
NewPhoneSession(phoneNumber) ==
    [tenantId |-> Undefined, phoneNumber |-> phoneNumber, currentState |-> "IDLE",
     cep |-> None, quantity |-> None, totalWeight |-> None, errorCount |-> 0,
     createdAt |-> now, updatedAt |-> now, expiresAt |-> now + sessionTtl]

\* createSession(phoneNumber)
createSessionByPhone(w, phoneNumber) ==
    LET saved == saveSessionByPhone(w, phoneNumber, NewPhoneSession(phoneNumber)) IN
    IF saved.kind = "throw" THEN saved
    ELSE Ret(Logged(saved.w, <<"session_created">>), Some(NewPhoneSession(phoneNumber)))

\* { ...session, ...updates, phoneNumber, updatedAt: Date.now() }
MergeByPhone(session, updates, phoneNumber) ==
    [f \in DOMAIN session \cup DOMAIN updates |->
        CASE f = "phoneNumber" -> phoneNumber
          [] f = "updatedAt"   -> now
          [] OTHER -> IF f \in DOMAIN updates THEN updates[f] ELSE session[f]]

\* updateSession(phoneNumber, updates)
updateSessionByPhone(w, phoneNumber, updates) ==
    LET got == getSessionByPhone(w, phoneNumber) IN
    IF got.kind = "throw" THEN got
    ELSE LET have == IF IsSome(got.value) THEN got
                     ELSE createSessionByPhone(Logged(got.w, <<"session_not_found_creating">>),
                                               phoneNumber) IN
         IF have.kind = "throw" THEN have
         ELSE LET updated == MergeByPhone(Val(have.value), updates, phoneNumber)
                  saved == saveSessionByPhone(have.w, phoneNumber, updated) IN
              IF saved.kind = "throw" THEN saved ELSE Ret(saved.w, Some(updated))

\* deleteSession(phoneNumber): the answer of redisClient.delete is not looked at
deleteSessionByPhone(w, phoneNumber) ==
    LET w1 == IF redisUp THEN redisDelete(w, getPhoneKey(phoneNumber)).w ELSE w IN
    Ret(Logged(memDelete(w1, phoneNumber), <<"session_deleted">>), None)

\* the processMessage calls that may run at the same time, all of one sender; p2 is
\* the name of a call that starts while another one is under way
OrchCalls == {"p1", "p2"}

MsgReset    == <<"r", "e", "s", "e", "t">>
MsgCancel   == <<"c", "a", "n", "c", "e", "l", "a", "r">>
MsgFrete    == <<"f", "r", "e", "t", "e">>
MsgQuantity == <<"5">>
MsgGreeting == <<"o", "i">>

\* the messages the sender writes; while one of them is being handled the sender
\* writes a reset or a cancel
OrchMessages(h) ==
    IF h = "p1" THEN {MsgReset, MsgCancel, MsgFrete, Str8Dash, MsgQuantity, MsgGreeting}
    ELSE {MsgReset, MsgCancel}

NoIntent == Intent("UNKNOWN", 0, None, None)

OrchIdle ==
    [pc |-> "idle", message |-> <<>>, intent |-> NoIntent, ctx |-> None,
     stage |-> "start", stale |-> FALSE]

\* the last step: the call, the await that was answered, whether the awaited call
\* returned, whether the session the call had read had been deleted since, and the
\* response if the step ended processMessage
Act(h, name, ok, stale, response) ==
    [h |-> h, name |-> name, ok |-> ok, stale |-> stale, response |-> response]

InitOrch ==
    /\ orch = [h \in OrchCalls |-> OrchIdle]
    /\ orchAct = Act("", "start", TRUE, FALSE, "none")

\* the object handed to updateSession: the keys the context has
AsUpdates(context) ==
    [f \in {g \in DOMAIN context : g \notin OptionalFields \/ IsSome(context[g])} |->
        context[f]]

\* handleIntent up to its first await: where the call goes for this intent
Routed(intent) ==
    IF intent.intent \in {"RESET", "CANCEL"} THEN "delete"
    ELSE IF intent.intent = "HELP" THEN "idle"
    ELSE IF intent.intent = "FREIGHT_QUERY" THEN "handlerGet"
    ELSE IF intent.intent = "PROVIDE_CEP" /\ IsSome(intent.cep) /\ Val(intent.cep) # <<>>
    THEN "handlerGet"
    ELSE IF intent.intent = "PROVIDE_QUANTITY" /\ IsSome(intent.quantity)
            /\ Val(intent.quantity) # 0
    THEN "handlerGet"
    ELSE "idle"

\* the call after classify and handleIntent's choice
AfterRouting(message) ==
    [pc |-> Routed(classify(message)), message |-> <<>>, intent |-> classify(message),
     ctx |-> None, stage |-> "start", stale |-> FALSE]

\* what a session manager call leaves in the stores
OrchStored(out) ==
    /\ redis' = out.w.redis
    /\ memory' = out.w.memory
    /\ sessLog' = out.w.log
    /\ sessOp' = NoOp("controller")
    /\ UNCHANGED <<env, redisUp, now>>

\* the session a getSession(phoneNumber) would return now
NextGet(r, m) == getSessionByPhone(World(r, m, Answered(1)), Phone1).value

\* processMessage up to the answer of `await sessionManager.getSession(phoneNumber)`
OrchGet(h, message, script) ==
    LET got == getSessionByPhone(World(redis, memory, script), Phone1)
        next == IF got.kind = "throw" THEN OrchIdle
                ELSE IF IsSome(got.value) THEN AfterRouting(message)
                ELSE [OrchIdle EXCEPT !.pc = "create", !.message = message]
    IN  /\ orch[h].pc = "idle"
        /\ h = "p2" => orch["p1"].pc # "idle"
        /\ OrchStored(got)
        /\ orch' = [orch EXCEPT ![h] = IF next.pc = "idle" THEN OrchIdle ELSE next]
        /\ orchAct' = Act(h, "get", got.kind = "return", FALSE,
                          IF got.kind = "throw" THEN "failure"
                          ELSE IF next.pc = "idle" THEN "success" ELSE "none")
        /\ UNCHANGED frVars

\* `session = await sessionManager.createSession(phoneNumber)`, then classify and
\* handleIntent up to its first await
OrchCreate(h, script) ==
    LET created == createSessionByPhone(World(redis, memory, script), Phone1)
        next == IF created.kind = "throw" THEN OrchIdle ELSE AfterRouting(orch[h].message)
    IN  /\ orch[h].pc = "create"
        /\ OrchStored(created)
        /\ orch' = [orch EXCEPT ![h] = IF next.pc = "idle" THEN OrchIdle ELSE next]
        /\ orchAct' = Act(h, "create", created.kind = "return", FALSE,
                          IF created.kind = "throw" THEN "failure"
                          ELSE IF next.pc = "idle" THEN "success" ELSE "none")
        /\ UNCHANGED frVars

\* `await sessionManager.deleteSession(phoneNumber)`, of handleIntent for RESET and
\* CANCEL and of handleQuantity after completion, and the reply; a call that holds a
\* session it read sees nothing of a deletion
OrchDelete(h, script) ==
    LET out == deleteSessionByPhone(World(redis, memory, script), Phone1)
        deleted == ~IsSome(NextGet(out.w.redis, out.w.memory))
    IN  /\ orch[h].pc = "delete"
        /\ OrchStored(out)
        /\ orch' = [g \in OrchCalls |->
                      IF g = h THEN OrchIdle
                      ELSE IF /\ orch[h].stage = "start"
                              /\ deleted
                              /\ orch[g].pc \in {"update", "calculate"}
                           THEN [orch[g] EXCEPT !.stale = TRUE]
                           ELSE orch[g]]
        /\ orchAct' = Act(h, IF orch[h].stage = "start" THEN "delete" ELSE "clear", TRUE, orch[h].stale, "success")
        /\ UNCHANGED frVars

\* the context and the event the handler of this intent gives to transition
HandlerTransition(intent, session) ==
    IF intent.intent = "FREIGHT_QUERY" THEN transition(session, "START_FREIGHT_QUERY")
    ELSE IF intent.intent = "PROVIDE_CEP"
    THEN transition([session EXCEPT !.cep = intent.cep], "CEP_PROVIDED")
    ELSE transition([session EXCEPT !.quantity = intent.quantity], "QUANTITY_PROVIDED")

\* startFreightQuery, handleCEP and handleQuantity up to the answer of their
\* getSession, the check of the session and the transition
OrchHandlerGet(h, script) ==
    LET got == getSessionByPhone(World(redis, memory, script), Phone1)
        intent == orch[h].intent
        missing == \/ ~IsSome(got.value)
                   \/ /\ intent.intent = "PROVIDE_QUANTITY"
                      /\ (~IsSome(Val(got.value).cep) \/ Val(Val(got.value).cep) = <<>>)
        moved == HandlerTransition(intent, Val(got.value))
        ok == got.kind = "return" /\ ~missing /\ moved.outcome = "return"
    IN  /\ orch[h].pc = "handlerGet"
        /\ OrchStored(got)
        /\ orch' = [orch EXCEPT ![h] =
                      IF ok THEN [orch[h] EXCEPT !.pc = "update", !.ctx = moved.newContext]
                      ELSE OrchIdle]
        /\ orchAct' = Act(h, "handlerGet", ok, FALSE,
                          IF ok THEN "none" ELSE "failure")
        /\ UNCHANGED frVars

\* `await sessionManager.updateSession(phoneNumber, newContext)` of the three
\* handlers, and what follows it without an await
OrchUpdate(h, script) ==
    LET out == updateSessionByPhone(World(redis, memory, script), Phone1,
                                    AsUpdates(Val(orch[h].ctx)))
        ok == out.kind = "return"
        quantityStep == orch[h].intent.intent = "PROVIDE_QUANTITY"
    IN  /\ orch[h].pc = "update"
        /\ OrchStored(out)
        /\ orch' = [orch EXCEPT ![h] =
                      IF ~ok \/ ~quantityStep THEN OrchIdle
                      ELSE IF orch[h].stage = "start"
                      THEN [orch[h] EXCEPT !.pc = "calculate", !.stage = "calculating"]
                      ELSE [orch[h] EXCEPT !.pc = "delete"]]
        /\ orchAct' = Act(h, "update", ok, orch[h].stale,
                          IF ~ok THEN "failure"
                          ELSE IF quantityStep THEN "none" ELSE "success")
        /\ UNCHANGED frVars

\* handleQuantity from `await freightService.calculateFreight(freightRequest)` on:
\* the transition to COMPLETED, or the catch block, whose transition to ERROR returns
\* a context nobody keeps
OrchCalculate(h, me, dbOk, readOk, writeOk) ==
    LET calculatingContext == Val(orch[h].ctx)
        freightRequest == [destinationCep |-> Val(calculatingContext.cep),
                           quantity |-> Val(calculatingContext.quantity),
                           unitWeight |-> None]
        r == calculateFreight(frCache, freightRequest, me, dbOk, readOk, writeOk)
        ok == r.run.kind = "return"
        completedContext == transition(calculatingContext, "CALCULATION_SUCCESS")
        errorContext == transition(calculatingContext, "CALCULATION_ERROR")
    IN  /\ orch[h].pc = "calculate"
        /\ Len(frSims) + Len(r.rows) <= MaxSims
        /\ frCache' = r.cache
        /\ frSims' = frSims \o r.rows
        /\ frRun' = r.run
        /\ orch' = [orch EXCEPT ![h] =
                      IF ok /\ completedContext.outcome = "return"
                      THEN [orch[h] EXCEPT !.pc = "update", !.stage = "completed",
                                           !.ctx = completedContext.newContext]
                      ELSE OrchIdle]
        /\ orchAct' = Act(h, "calculate", ok, orch[h].stale,
                          IF ok /\ completedContext.outcome = "return"
                          THEN "none" ELSE "failure")
        /\ sessLog' = IF ok THEN {} ELSE {<<"transition", errorContext.outcome>>}
        /\ sessOp' = NoOp("controller")
        /\ UNCHANGED <<env, redisUp, redis, memory, now>>

NextOrch ==
    \/ \E h \in OrchCalls : \E message \in OrchMessages(h), script \in Scripts(1) :
          OrchGet(h, message, script)
            /\ UNCHANGED <<smVars, rqVars, clVars, cfgVars, rkVars, keyVars, rlVars, fqVars, ccVars>>
    \/ \E h \in OrchCalls, script \in Scripts(1) :
          OrchCreate(h, script)
            /\ UNCHANGED <<smVars, rqVars, clVars, cfgVars, rkVars, keyVars, rlVars, fqVars, ccVars>>
    \/ \E h \in OrchCalls, script \in Scripts(1) :
          OrchDelete(h, script)
            /\ UNCHANGED <<smVars, rqVars, clVars, cfgVars, rkVars, keyVars, rlVars, fqVars, ccVars>>
    \/ \E h \in OrchCalls, script \in Scripts(1) :
          OrchHandlerGet(h, script)
            /\ UNCHANGED <<smVars, rqVars, clVars, cfgVars, rkVars, keyVars, rlVars, fqVars, ccVars>>
    \/ \E h \in OrchCalls, script \in Scripts(3) :
          OrchUpdate(h, script)
            /\ UNCHANGED <<smVars, rqVars, clVars, cfgVars, rkVars, keyVars, rlVars, fqVars, ccVars>>
    \/ \E h \in OrchCalls, me \in MeBehaviours, dbOk \in BOOLEAN :
          OrchCalculate(h, me, dbOk, TRUE, TRUE)
            /\ UNCHANGED <<smVars, rqVars, clVars, cfgVars, rkVars, keyVars, rlVars, fqVars, ccVars>>

\* C31: after processMessage has handled a message classified as Reset or Cancel, in
\* any session state, or has completed a quantity step whose freight calculation
\* succeeded, no session is stored for the sender: the next get returns null, and no
\* session stays stored in COMPLETED once the calls have returned.
C31_NoSessionAfterResetOrSuccess ==
    /\ (orchAct.name \in {"delete", "clear"} /\ orchAct.response = "success")
          => ~IsSome(NextGet(redis, memory))
    /\ (\A h \in OrchCalls : orch[h].pc = "idle")
          => (IsSome(NextGet(redis, memory))
                => Val(NextGet(redis, memory)).currentState # "COMPLETED")

\* the same where the backend answered the DEL command of the deletion
C31_WhenDeleteAnswered ==
    (/\ orchAct.name \in {"delete", "clear"}
     /\ <<"redis_command_failed", "del">> \notin sessLog)
        => ~IsSome(NextGet(redis, memory))

\* C35: when the freight calculation fails during the quantity step, the session the
\* controller leaves persisted is in state ERROR, not in CALCULATING.
C35_FailedCalculationStoresError ==
    (orchAct.name = "calculate" /\ ~orchAct.ok)
        => /\ IsSome(NextGet(redis, memory))
           /\ Val(NextGet(redis, memory)).currentState = "ERROR"

\* the step in which the calculation fails writes nothing to the session stores
C35_FailureStepWritesNothing ==
    [][ (orchAct'.name = "calculate" /\ ~orchAct'.ok) => UNCHANGED <<redis, memory>> ]_vars

\* C38: a deleted session is not resurrected by a handler that started earlier: once a
\* Reset or Cancel message has deleted the session, an update issued by a call that
\* read the session before the deletion stores no record for the key.
C38_DeletedNotResurrected ==
    (orchAct.name = "update" /\ orchAct.stale) => ~IsSome(NextGet(redis, memory))

\* an update of a call whose session nobody deleted leaves a session stored
C38_UpdateStores ==
    (orchAct.name = "update" /\ ~orchAct.stale /\ orchAct.ok)
        => IsSome(NextGet(redis, memory))

-----------------------------------------------------------------------------
\* nothing of the application layer has run
InitApp == InitKey /\ InitRl /\ InitFq /\ InitCc /\ InitOrch

\* a deployment that sets no DEFAULT_UNIT_WEIGHT_KG

Init ==
    /\ InitSM /\ InitSess /\ InitFr /\ InitRq /\ InitCl /\ InitRk /\ InitApp
    /\ defaultUnitWeight = DefaultUnitWeight
    /\ sessionTtl = SessionTtl

\* the state machine alone, under each configured unit weight: the session store and
\* the freight service stay idle
InitStateMachine ==
    /\ InitSM /\ InitSess /\ InitFr /\ InitRq /\ InitCl /\ InitRk /\ InitApp
    /\ defaultUnitWeight \in UnitWeightConfigs
    /\ sessionTtl = SessionTtl
    /\ env = "development" /\ ~redisUp

SpecSM == InitStateMachine /\ [][NextSM]_vars

SpecSess == Init /\ [][NextSess]_vars

\* the freight service in every profile, no session stored
InitFreight == Init /\ redis = <<>>

SpecFr == InitFreight /\ [][NextFr]_vars

\* one provider request after another
InitRequest == Init /\ env = "development" /\ ~redisUp

\* a fetch ends (AbortSignal.timeout bounds it) and a timer fires
FairRq == WF_vars(\E outcome \in FetchOutcomes : RqAttempt(outcome)) /\ WF_vars(RqBackoff)

SpecRq == InitRequest /\ [][NextRq]_vars /\ FairRq

\* the classifier applied to one message after another
InitClassifier == Init /\ env = "development" /\ ~redisUp

SpecCl == InitClassifier /\ [][NextCl]_vars

\* the ranking engine applied to one candidate list after another
InitRanking == Init /\ env = "development" /\ ~redisUp

SpecRk == InitRanking /\ [][NextRk]_vars

\* the keys built for one pair of identifiers after another
InitKeys == Init /\ env = "development" /\ ~redisUp

SpecKey == InitKeys /\ [][NextKey]_vars

\* concurrent webhook invocations of one sender, with and without a backend
InitLimiter == Init /\ env = "development" /\ redis = <<>>

SpecRl == InitLimiter /\ [][NextRl]_vars

\* one fetchQuotes call after another, under each configured unit weight
InitFetch ==
    /\ InitSM /\ InitSess /\ InitFr /\ InitRq /\ InitCl /\ InitRk /\ InitApp
    /\ defaultUnitWeight \in UnitWeightConfigs
    /\ sessionTtl = SessionTtl
    /\ env = "development" /\ ~redisUp

SpecFq == InitFetch /\ [][NextFq]_vars

\* concurrent callers of the session store in every profile, SESSION_TTL_HOURS set to
\* two ticks, no legacy key
InitConcurrent ==
    /\ InitSM /\ InitSess /\ InitFr /\ InitRq /\ InitCl /\ InitRk /\ InitApp
    /\ defaultUnitWeight = DefaultUnitWeight
    /\ sessionTtl = LongSessionTtl
    /\ redis = <<>>

SpecCc == InitConcurrent /\ [][NextCc]_vars

\* processMessage calls of one sender in every profile, with and without a session
\* stored under the sender's key
InitController == Init

SpecOrch == InitController /\ [][NextOrch]_vars

====
